---- MODULE Spec2Model ----
(***************************************************************************)
(* Model of react-use-echarts: the reference-counted instance cache, the   *)
(* custom-theme registry, the chart-group registry and the useEcharts      *)
(* hook that drives them.  The engine (echarts) is the environment: the    *)
(* model records the calls made on it.                                     *)
(***************************************************************************)
EXTENDS Integers, Sequences, FiniteSets, TLC

\* ---------------------------------------------------------------- bounds
MaxInst == 3
MaxRefCount == 3
MaxCommits == 4

\* ------------------------------------------------------------ universes
Elements == {"e1", "e2"}
Instances == 1..MaxInst
\* `undefined` where an instance is expected (getCachedInstance's miss)
NoInstance == 0
NoElement == ""

GroupIds == {"gA", "gB"}
\* `undefined` where a group id is expected (also the falsy empty string)
NoGroup == ""

VARIABLES
    cacheRevision,   \* which revision of utils/instance-cache is loaded
    instanceCache,   \* WeakMap<HTMLElement, CacheEntry>
    trackedElements, \* Set<HTMLElement> (revision 2 only)
    groupRegistry,   \* Map<string, Set<ECharts>>
    connectState,    \* engine side: last connect/disconnect call per group id
    themesRevision,  \* which revision of themes/index is loaded
    customThemeCache,   \* WeakMap<object, string>, keyed by object reference
    contentHashCache,   \* Map<string, string> (revision 2 only)
    customThemeCounter, \* counter behind the generated theme names
    builtinThemesRegistered, \* the lazy-registration flag (revision 2 only)
    registerThemeCalls, \* engine side: the registerTheme calls, in order
    disposeCount,    \* engine side: number of dispose() calls per instance
    instDom,         \* engine side: the container each instance was created on
    instTheme,       \* engine side: the theme name each instance was created with
    handlers,        \* engine side: the (event, handler) pairs bound per instance
    loading,         \* engine side: the loading display of each instance
    groupProp,       \* engine side: the group property of each instance
    lastSetOption,   \* engine side: the pair the last setOption of an effect gave each instance
    hook,            \* the state of each useEcharts binding
    commits,         \* number of commits (mount, re-render, unmount) so far
    calls,           \* engine calls made by the last operation, in order
    lastOp           \* the last operation that ran, with its arguments

cacheVars == <<cacheRevision, instanceCache, trackedElements>>
groupVars == <<groupRegistry, connectState>>
themeVars == <<themesRevision, customThemeCache, contentHashCache,
               customThemeCounter, builtinThemesRegistered, registerThemeCalls>>
engineVars == <<disposeCount, instDom, instTheme, handlers, loading, groupProp,
                lastSetOption>>
logVars == <<calls, lastOp>>
hookVars == <<hook, commits>>
vars == <<cacheVars, groupVars, themeVars, engineVars, hookVars, logVars>>

\* ------------------------------------------------------------- call log
Call(op, inst, a, b) == [op |-> op, inst |-> inst, a |-> a, b |-> b]
DisposeCall(i) == Call("dispose", i, "", "")
Op(name, element, instance, result) ==
    [op |-> name, hook |-> "", element |-> element, instance |-> instance,
     result |-> result]
HookOp(name, h, element, instance, result) ==
    [op |-> name, hook |-> h, element |-> element, instance |-> instance,
     result |-> result]

\* Number of calls of op on instance inst in log s
RECURSIVE CountCalls(_, _, _)
CountCalls(s, op, inst) ==
    IF s = <<>> THEN 0
    ELSE (IF Head(s).op = op /\ Head(s).inst = inst THEN 1 ELSE 0)
         + CountCalls(Tail(s), op, inst)

\* disposeCount after the dispose() calls of log s
DisposeAll(dc, s) == [i \in Instances |-> dc[i] + CountCalls(s, "dispose", i)]

\* ------------------------------------------------- utils/instance-cache
CacheEntry(instance, refCount) == [instance |-> instance, refCount |-> refCount]

getCachedInstance(cache, element) ==
    IF element \in DOMAIN cache THEN cache[element].instance ELSE NoInstance

getReferenceCount(cache, element) ==
    IF element \in DOMAIN cache THEN cache[element].refCount ELSE 0

\* Faulty variant of setCachedInstance: the new instance overwrites the cached one
setCachedInstanceOverwrite(cache, element, instance) ==
    IF element \in DOMAIN cache
    THEN [cache EXCEPT ![element] = CacheEntry(instance, @.refCount + 1)]
    ELSE [x \in DOMAIN cache \cup {element} |->
            IF x = element THEN CacheEntry(instance, 1) ELSE cache[x]]

\* setCachedInstance: the cache afterwards, and the value returned
setCachedInstance(cache, element, instance) ==
    IF element \in DOMAIN cache
    THEN [cache EXCEPT ![element].refCount = @ + 1]
    ELSE [x \in DOMAIN cache \cup {element} |->
            IF x = element THEN CacheEntry(instance, 1) ELSE cache[x]]

setCachedInstanceReturn(cache, element, instance) ==
    IF element \in DOMAIN cache THEN cache[element].instance ELSE instance

\* trackedElements after setCachedInstance / replaceCachedInstance (rev 2)
trackAdd(rev, cache, tracked, element) ==
    IF rev = 2 /\ element \notin DOMAIN cache THEN tracked \cup {element} ELSE tracked

\* replaceCachedInstance: revision 1 swaps the instance in place, revision 2
\* disposes the old instance first
replaceCachedInstance(cache, element, instance) ==
    IF element \in DOMAIN cache
    THEN [cache EXCEPT ![element].instance = instance]
    ELSE [x \in DOMAIN cache \cup {element} |->
            IF x = element THEN CacheEntry(instance, 1) ELSE cache[x]]

replaceCachedInstanceCalls(rev, cache, element) ==
    IF rev = 2 /\ element \in DOMAIN cache
    THEN <<DisposeCall(cache[element].instance)>>
    ELSE <<>>

\* Faulty variants of the release test: disposing while another owner remains,
\* and keeping an entry whose count has reached 0
releaseDisposesEarly(cache, element) ==
    element \in DOMAIN cache /\ cache[element].refCount - 1 <= 1

releaseDisposesLate(cache, element) ==
    element \in DOMAIN cache /\ cache[element].refCount - 1 < 0

\* releaseCachedInstance: refCount -= 1; dispose and delete at <= 0
releaseDisposes(cache, element) ==
    element \in DOMAIN cache /\ cache[element].refCount - 1 <= 0

releaseCachedInstance(cache, element) ==
    IF element \notin DOMAIN cache THEN cache
    ELSE IF releaseDisposes(cache, element)
         THEN [x \in DOMAIN cache \ {element} |-> cache[x]]
         ELSE [cache EXCEPT ![element].refCount = @ - 1]

\* Faulty variant of releaseCachedInstance: the entry goes without a dispose()
releaseCachedInstanceCallsSilent(cache, element) ==
    <<>>

releaseCachedInstanceCalls(cache, element) ==
    IF releaseDisposes(cache, element)
    THEN <<DisposeCall(cache[element].instance)>>
    ELSE <<>>

trackRemove(rev, cache, tracked, element) ==
    IF rev = 2 /\ releaseDisposes(cache, element) THEN tracked \ {element} ELSE tracked

\* clearInstanceCache: revision 1 has an empty body; revision 2 disposes the
\* instance of every tracked element and resets both collections
RECURSIVE SetToSeq(_)
SetToSeq(S) ==
    IF S = {} THEN <<>>
    ELSE LET x == CHOOSE y \in S : TRUE IN <<x>> \o SetToSeq(S \ {x})

clearInstanceCacheCalls(rev, cache, tracked) ==
    IF rev = 2
    THEN LET els == SetToSeq(tracked \cap DOMAIN cache)
         IN [k \in 1..Len(els) |-> DisposeCall(cache[els[k]].instance)]
    ELSE <<>>

clearInstanceCache(rev, cache) == IF rev = 2 THEN <<>> ELSE cache

clearTracked(rev, tracked) == IF rev = 2 THEN {} ELSE tracked

\* -------------------------------------------- direct calls of the cache API
\* An engine instance handed to the cache is one that has not been disposed
\* and is not cached under another container.
Usable(i, element) ==
    /\ disposeCount[i] = 0
    /\ \A x \in DOMAIN instanceCache : x # element => instanceCache[x].instance # i

CallSetCachedInstance(element, instance) ==
    /\ Usable(instance, element)
    /\ getReferenceCount(instanceCache, element) < MaxRefCount
    /\ instanceCache' = setCachedInstance(instanceCache, element, instance)
    /\ trackedElements' = trackAdd(cacheRevision, instanceCache, trackedElements, element)
    /\ calls' = <<>>
    /\ lastOp' = Op("setCachedInstance", element, instance,
                    setCachedInstanceReturn(instanceCache, element, instance))
    /\ UNCHANGED <<cacheRevision, engineVars, groupVars, themeVars, hookVars>>

CallReplaceCachedInstance(element, instance) ==
    /\ Usable(instance, element)
    /\ getCachedInstance(instanceCache, element) # instance
    /\ instanceCache' = replaceCachedInstance(instanceCache, element, instance)
    /\ trackedElements' = trackAdd(cacheRevision, instanceCache, trackedElements, element)
    /\ calls' = replaceCachedInstanceCalls(cacheRevision, instanceCache, element)
    /\ disposeCount' = DisposeAll(disposeCount, calls')
    /\ lastOp' = Op("replaceCachedInstance", element, instance, instance)
    /\ UNCHANGED <<cacheRevision, instDom, instTheme, handlers, loading, groupProp,
                   lastSetOption, groupVars,
                   themeVars, hookVars>>

CallReleaseCachedInstance(element) ==
    /\ instanceCache' = releaseCachedInstance(instanceCache, element)
    /\ trackedElements' = trackRemove(cacheRevision, instanceCache, trackedElements, element)
    /\ calls' = releaseCachedInstanceCalls(instanceCache, element)
    /\ disposeCount' = DisposeAll(disposeCount, calls')
    /\ lastOp' = Op("releaseCachedInstance", element, NoInstance, NoInstance)
    /\ UNCHANGED <<cacheRevision, instDom, instTheme, handlers, loading, groupProp,
                   lastSetOption, groupVars,
                   themeVars, hookVars>>

CallClearInstanceCache ==
    /\ instanceCache' = clearInstanceCache(cacheRevision, instanceCache)
    /\ trackedElements' = clearTracked(cacheRevision, trackedElements)
    /\ calls' = clearInstanceCacheCalls(cacheRevision, instanceCache, trackedElements)
    /\ disposeCount' = DisposeAll(disposeCount, calls')
    /\ lastOp' = Op("clearInstanceCache", NoElement, NoInstance, NoInstance)
    /\ UNCHANGED <<cacheRevision, instDom, instTheme, handlers, loading, groupProp,
                   lastSetOption, groupVars,
                   themeVars, hookVars>>

\* ------------------------------------------------------- utils/connect
\* The registry is a Map: a sequence of [id, instances] in insertion order.
GroupEntry(groupId, instances) == [id |-> groupId, instances |-> instances]

hasGroup(reg, groupId) == \E k \in DOMAIN reg : reg[k].id = groupId

\* getGroupInstances, as a set
members(reg, groupId) ==
    IF hasGroup(reg, groupId)
    THEN reg[CHOOSE k \in DOMAIN reg : reg[k].id = groupId].instances
    ELSE {}

ConnectCall(groupId) == Call("connect", NoInstance, groupId, "")
DisconnectCall(groupId) == Call("disconnect", NoInstance, groupId, "")

\* addToGroup: create the set if missing, add, connect when size > 1
addToGroup(reg, instance, groupId) ==
    IF hasGroup(reg, groupId)
    THEN [k \in DOMAIN reg |->
            IF reg[k].id = groupId
            THEN GroupEntry(groupId, reg[k].instances \cup {instance})
            ELSE reg[k]]
    ELSE Append(reg, GroupEntry(groupId, {instance}))

\* Faulty variant of addToGroup: connect is called for a group of one as well
addToGroupCallsAlways(reg, instance, groupId) == <<ConnectCall(groupId)>>

addToGroupCalls(reg, instance, groupId) ==
    IF Cardinality(members(addToGroup(reg, instance, groupId), groupId)) > 1
    THEN <<ConnectCall(groupId)>>
    ELSE <<>>

\* removeFromGroup: unknown group returns; delete; 0 left: drop the entry and
\* disconnect; 1 left: disconnect; otherwise connect again
sizeAfterDelete(reg, instance, groupId) ==
    Cardinality(members(reg, groupId) \ {instance})

removeFromGroup(reg, instance, groupId) ==
    IF ~hasGroup(reg, groupId) THEN reg
    ELSE IF sizeAfterDelete(reg, instance, groupId) = 0
         THEN SelectSeq(reg, LAMBDA r : r.id # groupId)
         ELSE [k \in DOMAIN reg |->
                IF reg[k].id = groupId
                THEN GroupEntry(groupId, reg[k].instances \ {instance})
                ELSE reg[k]]

\* Faulty variant of removeFromGroup: no disconnect when one member remains
removeFromGroupCallsKeepsLink(reg, instance, groupId) ==
    IF ~hasGroup(reg, groupId) THEN <<>>
    ELSE IF sizeAfterDelete(reg, instance, groupId) = 0 THEN <<DisconnectCall(groupId)>>
    ELSE IF sizeAfterDelete(reg, instance, groupId) = 1 THEN <<>>
    ELSE <<ConnectCall(groupId)>>

removeFromGroupCalls(reg, instance, groupId) ==
    IF ~hasGroup(reg, groupId) THEN <<>>
    ELSE IF sizeAfterDelete(reg, instance, groupId) = 0 THEN <<DisconnectCall(groupId)>>
    ELSE IF sizeAfterDelete(reg, instance, groupId) = 1 THEN <<DisconnectCall(groupId)>>
    ELSE <<ConnectCall(groupId)>>

\* updateGroup: leave the old group if given, then join the new one if given
updateGroupLeft(reg, instance, oldGroupId) ==
    IF oldGroupId # NoGroup THEN removeFromGroup(reg, instance, oldGroupId) ELSE reg

\* Faulty variant: joins the new group before it leaves the old one
updateGroupJoinsFirst(reg, instance, oldGroupId, newGroupId) ==
    updateGroupLeft(IF newGroupId # NoGroup THEN addToGroup(reg, instance, newGroupId)
                    ELSE reg,
                    instance, oldGroupId)

updateGroup(reg, instance, oldGroupId, newGroupId) ==
    IF newGroupId # NoGroup
    THEN addToGroup(updateGroupLeft(reg, instance, oldGroupId), instance, newGroupId)
    ELSE updateGroupLeft(reg, instance, oldGroupId)

updateGroupCalls(reg, instance, oldGroupId, newGroupId) ==
    (IF oldGroupId # NoGroup THEN removeFromGroupCalls(reg, instance, oldGroupId) ELSE <<>>)
    \o (IF newGroupId # NoGroup
        THEN addToGroupCalls(updateGroupLeft(reg, instance, oldGroupId), instance, newGroupId)
        ELSE <<>>)

\* getInstanceGroup: the first group, in insertion order, that holds the instance
groupsOf(reg, instance) == {k \in DOMAIN reg : instance \in reg[k].instances}

getInstanceGroup(reg, instance) ==
    IF groupsOf(reg, instance) = {} THEN NoGroup
    ELSE reg[CHOOSE k \in groupsOf(reg, instance) :
                \A j \in groupsOf(reg, instance) : k <= j].id

isInGroup(reg, instance) == getInstanceGroup(reg, instance) # NoGroup

\* clearGroups: disconnect every known group, then clear
clearGroupsCalls(reg) == [k \in DOMAIN reg |-> DisconnectCall(reg[k].id)]

clearGroups(reg) == <<>>

\* the engine's connect state after the connect/disconnect calls of log s
RECURSIVE ConnectAll(_, _)
ConnectAll(cs, s) ==
    IF s = <<>> THEN cs
    ELSE ConnectAll(
            IF Head(s).op = "connect" THEN [cs EXCEPT ![Head(s).a] = "connected"]
            ELSE IF Head(s).op = "disconnect" THEN [cs EXCEPT ![Head(s).a] = "disconnected"]
            ELSE cs,
            Tail(s))

\* ------------------------------------------ direct calls of the group API
\* the record of an updateGroup call: its old group id is logged as the
\* element, its new group id in the hook field
GroupOp(name, oldGroupId, newGroupId, instance) ==
    [Op(name, oldGroupId, instance, NoInstance) EXCEPT !.hook = newGroupId]

CallAddToGroup(instance, groupId) ==
    /\ groupRegistry' = addToGroup(groupRegistry, instance, groupId)
    /\ calls' = addToGroupCalls(groupRegistry, instance, groupId)
    /\ connectState' = ConnectAll(connectState, calls')
    /\ lastOp' = Op("addToGroup", groupId, instance, NoInstance)
    /\ UNCHANGED <<cacheVars, themeVars, engineVars, hookVars>>

CallRemoveFromGroup(instance, groupId) ==
    /\ groupRegistry' = removeFromGroup(groupRegistry, instance, groupId)
    /\ calls' = removeFromGroupCalls(groupRegistry, instance, groupId)
    /\ connectState' = ConnectAll(connectState, calls')
    /\ lastOp' = Op("removeFromGroup", groupId, instance, NoInstance)
    /\ UNCHANGED <<cacheVars, themeVars, engineVars, hookVars>>

CallUpdateGroup(instance, oldGroupId, newGroupId) ==
    /\ groupRegistry' = updateGroup(groupRegistry, instance, oldGroupId, newGroupId)
    /\ calls' = updateGroupCalls(groupRegistry, instance, oldGroupId, newGroupId)
    /\ connectState' = ConnectAll(connectState, calls')
    /\ lastOp' = GroupOp("updateGroup", oldGroupId, newGroupId, instance)
    /\ UNCHANGED <<cacheVars, themeVars, engineVars, hookVars>>

CallClearGroups ==
    /\ groupRegistry' = clearGroups(groupRegistry)
    /\ calls' = clearGroupsCalls(groupRegistry)
    /\ connectState' = ConnectAll(connectState, calls')
    /\ lastOp' = Op("clearGroups", NoElement, NoInstance, NoInstance)
    /\ UNCHANGED <<cacheVars, themeVars, engineVars, hookVars>>

\* -------------------------------------------------------- themes/index
BuiltinThemes == {"light", "dark", "macarons"}

isBuiltinTheme(themeName) == themeName \in BuiltinThemes

\* A custom theme object: its identity (the reference) and its own properties
\* in insertion order.  Undefined is the value `undefined`.
Undefined == "undefined"
Prop(key, value) == [key |-> key, value |-> value]
ThemeObject(ref, props) == [ref |-> ref, props |-> props]

ThemeObjects ==
    { ThemeObject(1, <<Prop("color", "\"red\"")>>),
      ThemeObject(2, <<Prop("color", "\"red\"")>>),
      ThemeObject(3, <<Prop("color", "\"blue\"")>>),
      ThemeObject(4, <<Prop("a", "1"), Prop("b", "2")>>),
      ThemeObject(5, <<Prop("b", "2"), Prop("a", "1")>>),
      ThemeObject(6, <<Prop("color", "\"red\""), Prop("extra", Undefined)>>) }

\* JSON.stringify of a theme object: own properties in insertion order,
\* properties whose value is undefined left out
RECURSIVE stringifyProps(_, _)
stringifyProps(props, first) ==
    IF props = <<>> THEN ""
    ELSE IF Head(props).value = Undefined THEN stringifyProps(Tail(props), first)
    ELSE (IF first THEN "" ELSE ",")
         \o "\"" \o Head(props).key \o "\":" \o Head(props).value
         \o stringifyProps(Tail(props), FALSE)

JSONstringify(theme) == "{" \o stringifyProps(theme.props, TRUE) \o "}"

customThemeName(counter) == "__custom_theme_" \o ToString(counter)

RegisterThemeCall(themeName, ref) == [name |-> themeName, ref |-> ref]

\* registerBuiltinThemes: one registerTheme per built-in theme (ref 0: a preset)
registerBuiltinThemesCalls ==
    <<RegisterThemeCall("light", 0), RegisterThemeCall("dark", 0),
      RegisterThemeCall("macarons", 0)>>

\* ensureBuiltinThemesRegistered (revision 2): once only
ensureBuiltinThemesRegisteredCalls(registered) ==
    IF registered THEN <<>> ELSE registerBuiltinThemesCalls

\* getOrRegisterCustomTheme.  Revision 1 caches by reference only; revision 2
\* adds the cache keyed by JSON.stringify of the object.
refHit(refCache, theme) == theme.ref \in DOMAIN refCache

\* Faulty variant of the content lookup: the content cache is never consulted
hashHitNever(rev, hashCache, theme) == FALSE

hashHit(rev, hashCache, theme) ==
    rev = 2 /\ JSONstringify(theme) \in DOMAIN hashCache

getOrRegisterCustomTheme(rev, refCache, hashCache, counter, theme) ==
    IF refHit(refCache, theme) THEN refCache[theme.ref]
    ELSE IF hashHit(rev, hashCache, theme) THEN hashCache[JSONstringify(theme)]
    ELSE customThemeName(counter)

registersTheme(rev, refCache, hashCache, theme) ==
    ~refHit(refCache, theme) /\ ~hashHit(rev, hashCache, theme)

MapSet(map, key, value) ==
    [k \in DOMAIN map \cup {key} |-> IF k = key THEN value ELSE map[k]]

customThemeCacheAfter(rev, refCache, hashCache, counter, theme) ==
    IF refHit(refCache, theme) THEN refCache
    ELSE MapSet(refCache, theme.ref,
                getOrRegisterCustomTheme(rev, refCache, hashCache, counter, theme))

contentHashCacheAfter(rev, refCache, hashCache, counter, theme) ==
    IF rev = 2 /\ registersTheme(rev, refCache, hashCache, theme)
    THEN MapSet(hashCache, JSONstringify(theme), customThemeName(counter))
    ELSE hashCache

customThemeCounterAfter(rev, refCache, hashCache, counter, theme) ==
    IF registersTheme(rev, refCache, hashCache, theme) THEN counter + 1 ELSE counter

getOrRegisterCustomThemeCalls(rev, refCache, hashCache, counter, theme) ==
    IF registersTheme(rev, refCache, hashCache, theme)
    THEN <<RegisterThemeCall(customThemeName(counter), theme.ref)>>
    ELSE <<>>

\* ------------------------------------------ direct calls of the theme API
ThemeOp(name, ref, result) ==
    [op |-> name, hook |-> "", element |-> result, instance |-> ref,
     result |-> NoInstance]

CallGetOrRegisterCustomTheme(theme) ==
    /\ customThemeCache' = customThemeCacheAfter(themesRevision, customThemeCache,
            contentHashCache, customThemeCounter, theme)
    /\ contentHashCache' = contentHashCacheAfter(themesRevision, customThemeCache,
            contentHashCache, customThemeCounter, theme)
    /\ customThemeCounter' = customThemeCounterAfter(themesRevision, customThemeCache,
            contentHashCache, customThemeCounter, theme)
    /\ registerThemeCalls' = registerThemeCalls \o
            getOrRegisterCustomThemeCalls(themesRevision, customThemeCache,
                contentHashCache, customThemeCounter, theme)
    /\ calls' = <<>>
    /\ lastOp' = ThemeOp("getOrRegisterCustomTheme", theme.ref,
            getOrRegisterCustomTheme(themesRevision, customThemeCache,
                contentHashCache, customThemeCounter, theme))
    /\ UNCHANGED <<themesRevision, builtinThemesRegistered, cacheVars, groupVars, engineVars, hookVars>>

\* ensureBuiltinThemesRegistered, which revision 2 exports: the first call
\* registers the built-in themes and sets the flag, a later one returns
CallEnsureBuiltinThemesRegistered ==
    /\ themesRevision = 2
    /\ registerThemeCalls' = registerThemeCalls \o
            ensureBuiltinThemesRegisteredCalls(builtinThemesRegistered)
    /\ builtinThemesRegistered' = TRUE
    /\ calls' = <<>>
    /\ lastOp' = ThemeOp("ensureBuiltinThemesRegistered", NoInstance, "")
    /\ UNCHANGED <<themesRevision, customThemeCache, contentHashCache,
                   customThemeCounter, cacheVars, groupVars, engineVars, hookVars>>

\* ------------------------------------------------- hooks/use-echarts: data
Hooks == {"h1", "h2"}

\* A theme descriptor: null, a string, or a custom theme object
NoObject == ThemeObject(0, <<>>)
NullTheme == [kind |-> "null", name |-> "", object |-> NoObject]
StringTheme(name) == [kind |-> "string", name |-> name, object |-> NoObject]
ObjectTheme(object) == [kind |-> "object", name |-> "", object |-> object]

\* `null` where a theme key or an engine theme name is expected
NullName == "null"

\* Faulty variant of computeThemeKey: a custom object is keyed by its identity
computeThemeKeyByReference(theme) ==
    IF theme.kind = "null" THEN NullName
    ELSE IF theme.kind = "string"
         THEN (IF isBuiltinTheme(theme.name) THEN theme.name ELSE NullName)
    ELSE "ref" \o ToString(theme.object.ref)

\* computeThemeKey: null, the built-in name, or the JSON text of the object
computeThemeKey(theme) ==
    IF theme.kind = "null" THEN NullName
    ELSE IF theme.kind = "string"
         THEN (IF isBuiltinTheme(theme.name) THEN theme.name ELSE NullName)
    ELSE JSONstringify(theme.object)

\* resolveThemeName: the name handed to echarts.init
resolveThemeName(rev, refCache, hashCache, counter, theme) ==
    IF theme.kind = "null" THEN NullName
    ELSE IF theme.kind = "string" /\ isBuiltinTheme(theme.name) THEN theme.name
    ELSE IF theme.kind = "object"
         THEN getOrRegisterCustomTheme(rev, refCache, hashCache, counter, theme.object)
    ELSE NullName

\* An onEvents table: an object (identity ref) of event name -> {handler, query,
\* context}; NoEvents is `undefined`
\* An onEvents entry is a full config {handler, query, context} or, as the type
\* EChartsEventConfig allows, a bare function: fn holds it, and the function has
\* no handler, query or context property
EventEntry(event, handler, query, context) ==
    [event |-> event, handler |-> handler, query |-> query, context |-> context,
     fn |-> ""]
ShorthandEntry(event, fn) ==
    [event |-> event, handler |-> "", query |-> "", context |-> "", fn |-> fn]
EventTable(ref, entries) == [ref |-> ref, entries |-> entries]
NoEvents == EventTable(0, <<>>)

EventTables ==
    { NoEvents,
      EventTable(1, <<EventEntry("click", "f1", "", "")>>),
      EventTable(2, <<EventEntry("click", "f2", "", ""),
                      EventEntry("datazoom", "f3", "series", "ctx")>>) }

\* tables with a shorthand entry, alone and mixed with a full entry
ShorthandTables ==
    { NoEvents,
      EventTable(3, <<ShorthandEntry("click", "f4")>>),
      EventTable(4, <<ShorthandEntry("click", "f4"),
                      EventEntry("mouseover", "f5", "series", "")>>) }

Bound(event, handler) == [event |-> event, handler |-> handler]
tableHandlers(table) ==
    {Bound(table.entries[k].event, table.entries[k].handler) : k \in DOMAIN table.entries}

\* bindEvents / unbindEvents: one on / off call per entry, in entry order, with
\* the handler property destructured from the entry
bindEvents(instance, events) ==
    [k \in DOMAIN events.entries |->
        Call("on", instance, events.entries[k].event, events.entries[k].handler)]

unbindEvents(instance, events) ==
    [k \in DOMAIN events.entries |->
        Call("off", instance, events.entries[k].event, events.entries[k].handler)]

\* the engine's bound handlers after the on / off calls of log s
RECURSIVE HandlersAll(_, _)
HandlersAll(hs, s) ==
    IF s = <<>> THEN hs
    ELSE HandlersAll(
            IF Head(s).op = "on"
            THEN [hs EXCEPT ![Head(s).inst] = @ \cup {Bound(Head(s).a, Head(s).b)}]
            ELSE IF Head(s).op = "off"
            THEN [hs EXCEPT ![Head(s).inst] = @ \ {Bound(Head(s).a, Head(s).b)}]
            ELSE hs,
            Tail(s))

\* the engine's loading display: hidden, or shown with the options it was given
LoadingState(shown, option) == [shown |-> shown, option |-> option]
LoadingHidden == LoadingState(FALSE, "")

\* the engine's loading displays after the showLoading / hideLoading calls of log s
RECURSIVE LoadingAll(_, _)
LoadingAll(ls, s) ==
    IF s = <<>> THEN ls
    ELSE LoadingAll(
            IF Head(s).op = "showLoading"
            THEN [ls EXCEPT ![Head(s).inst] = LoadingState(TRUE, Head(s).a)]
            ELSE IF Head(s).op = "hideLoading"
            THEN [ls EXCEPT ![Head(s).inst] = LoadingHidden]
            ELSE ls,
            Tail(s))

\* The lazyInit option: left out, a boolean, or an IntersectionObserverInit
LazyAbsent == "absent"
LazySettings == {LazyAbsent, "false", "true", "object"}

\* `lazyInit = false` of the options destructuring
lazyInitDefault(lazyInit) == IF lazyInit = LazyAbsent THEN "false" ELSE lazyInit

\* Faulty variant of isLazyMode: only the boolean true counts as lazy
isLazyModeTrueOnly(options) == options = "true"

\* useLazyInit: isLazyMode = options !== false
isLazyMode(options) == options # "false"

\* The autoResize option: left out (the default is true) or a boolean
AutoResizeAbsent == "absent"
AutoResizeSettings == {AutoResizeAbsent, "false", "true"}
autoResizeDefault(autoResize) ==
    IF autoResize = AutoResizeAbsent THEN "true" ELSE autoResize

\* The options of a binding; where nothing else is said the binding opts out of
\* auto-resize
Props(theme, onEvents, group) ==
    [theme |-> theme, renderer |-> "canvas", initOpts |-> "", option |-> "o1",
     setOptionOpts |-> "", showLoading |-> FALSE, loadingOption |-> "",
     onEvents |-> onEvents, group |-> group, onError |-> FALSE,
     lazyInit |-> LazyAbsent, autoResize |-> "false"]

\* whether the binding of these options resizes with its container
AutoResizeProps(props) == autoResizeDefault(props.autoResize) = "true"

\* whether the binding of these options is in lazy mode
LazyProps(props) == isLazyMode(lazyInitDefault(props.lazyInit))

NoApplied == [set |-> FALSE, option |-> "", opts |-> ""]
Applied(option, opts) == [set |-> TRUE, option |-> option, opts |-> opts]

\* A binding that is not mounted
UnmountedHook ==
    [mounted |-> FALSE, element |-> NoElement,
     props |-> Props(NullTheme, NoEvents, NoGroup),
     shouldInit |-> TRUE, pending |-> <<>>,
     boundEventsRef |-> NoEvents, lastAppliedRef |-> NoApplied,
     cleanup1 |-> FALSE, thrown |-> FALSE,
     observer |-> "none", lazyCleanup |-> FALSE, resizeObserver |-> "none"]

\* The effects of a commit, in the order React runs them: the cleanup of the
\* lifecycle layout effect, its setup, then the passive effects 2..5.
Stage(h, stage) ==
    /\ hook[h].mounted
    /\ hook[h].pending # <<>>
    /\ Head(hook[h].pending) = stage

AfterStage(hk) == [hk EXCEPT !.pending = Tail(@)]

MountStages == <<"effect1", "effect2", "effect3", "effect4", "effect5">>

\* Faulty variant of the Effect 1 dependencies: themeKey is left out
Effect1ChangedIgnoresTheme(old, new) ==
    \/ old.renderer # new.renderer
    \/ old.initOpts # new.initOpts

\* dependency lists: [shouldInit, ref, themeKey, renderer, initOpts],
\* [option, setOptionOpts], [showLoading, loadingOption], [onEvents], [group]
Effect1Changed(old, new) ==
    \/ computeThemeKey(old.theme) # computeThemeKey(new.theme)
    \/ old.renderer # new.renderer
    \/ old.initOpts # new.initOpts

\* Every effect runs on a mount; the effect of useLazyInit is the first passive
\* effect, and without lazy mode it returns at once, as Effect 6 does without
\* autoResize
MountStagesFor(props) ==
    (IF LazyProps(props)
     THEN <<"effect1", "lazy", "effect2", "effect3", "effect4", "effect5">>
     ELSE MountStages)
    \o (IF AutoResizeProps(props) THEN <<"effect6">> ELSE <<>>)

RenderStages(hk, new) ==
    (IF Effect1Changed(hk.props, new) /\ hk.cleanup1 THEN <<"cleanup1">> ELSE <<>>)
    \o (IF Effect1Changed(hk.props, new) THEN <<"effect1">> ELSE <<>>)
    \o (IF LazyProps(hk.props) # LazyProps(new) THEN <<"lazy">> ELSE <<>>)
    \o (IF hk.props.option # new.option \/ hk.props.setOptionOpts # new.setOptionOpts
        THEN <<"effect2">> ELSE <<>>)
    \o (IF hk.props.showLoading # new.showLoading
           \/ hk.props.loadingOption # new.loadingOption
        THEN <<"effect3">> ELSE <<>>)
    \o (IF hk.props.onEvents # new.onEvents THEN <<"effect4">> ELSE <<>>)
    \o (IF hk.props.group # new.group THEN <<"effect5">> ELSE <<>>)
    \o (IF AutoResizeProps(hk.props) # AutoResizeProps(new)
        THEN <<"effect6">> ELSE <<>>)

\* echarts.init: a new instance, or the live instance already on the container
FreshInstances == {i \in Instances : instDom[i] = NoElement}
FreshInstance == CHOOSE i \in FreshInstances : \A j \in FreshInstances : i <= j
LiveOn(element) == {i \in Instances : instDom[i] = element /\ disposeCount[i] = 0}
PendingInits == Cardinality({h \in Hooks : \E k \in DOMAIN hook[h].pending :
                                              hook[h].pending[k] = "effect1"})

InitThrows == NoInstance
InitOutcomes(element, failures) ==
    (IF "init" \in failures THEN {InitThrows} ELSE {})
    \cup LiveOn(element)
    \cup (IF FreshInstances = {} THEN {} ELSE {FreshInstance})

\* whether an engine call throws: it may when its failure is among failures
Throws(call, failures) == IF call \in failures THEN BOOLEAN ELSE {FALSE}

\* the engine call named raised an exception
Raise(call) == Call("raise", NoInstance, call, "")

\* Faulty variant of the catch blocks: the fallback runs besides onError
ErrorCallsBoth(props, fallback) ==
    (IF props.onError THEN <<Call("onError", NoInstance, "", "")>> ELSE <<>>)
    \o <<Call(fallback, NoInstance, "", "")>>

\* Faulty variant of the catch blocks: without onError the error is dropped
ErrorCallsSwallows(props, fallback) ==
    IF props.onError THEN <<Call("onError", NoInstance, "", "")>> ELSE <<>>

\* an error caught by the hook: the onError callback, or else the fallback
ErrorCalls(props, fallback) ==
    IF props.onError THEN <<Call("onError", NoInstance, "", "")>>
    ELSE <<Call(fallback, NoInstance, "", "")>>

\* the properties a binding is rendered with
HookThemes ==
    { NullTheme, StringTheme("dark") }
HookProps ==
    { Props(theme, onEvents, group) :
        theme \in HookThemes, onEvents \in EventTables, group \in {NoGroup} }
    \cup { Props(NullTheme, NoEvents, groupId) : groupId \in {"gA"} }

\* ---------------------------------------------- hooks/use-echarts: commits
\* A pass has settled when no binding has effects left to run; passes do not
\* interleave
Settled == \A g \in Hooks : hook[g].pending = <<>>

\* Bindings and containers are interchangeable until used: a new binding takes
\* the first free slot, a container not seen before is the first unused one
HookOrder == <<"h1", "h2">>
ElementOrder == <<"e1", "e2">>
FirstFreeHook ==
    HookOrder[CHOOSE k \in DOMAIN HookOrder :
                /\ ~hook[HookOrder[k]].mounted
                /\ \A j \in 1..(k - 1) : hook[HookOrder[j]].mounted]
UsedElements ==
    ({instDom[i] : i \in Instances} \cup {hook[g].element : g \in Hooks}
        \cup DOMAIN instanceCache \cup trackedElements) \ {NoElement}
MountElements ==
    UsedElements \cup
    {ElementOrder[k] : k \in {k \in DOMAIN ElementOrder :
        /\ ElementOrder[k] \notin UsedElements
        /\ \A j \in 1..(k - 1) : ElementOrder[j] \in UsedElements}}

\* First commit of a binding on a container: every effect runs
Mount(h, element, props) ==
    /\ ~hook[h].mounted
    /\ h = FirstFreeHook
    /\ element \in MountElements \cup {NoElement}
    /\ Settled
    /\ commits < MaxCommits
    /\ commits' = commits + 1
    /\ Cardinality(FreshInstances) > PendingInits
    /\ hook' = [hook EXCEPT ![h] =
                    [UnmountedHook EXCEPT !.mounted = TRUE, !.element = element,
                                          !.props = props,
                                          !.shouldInit = ~LazyProps(props),
                                          !.pending = MountStagesFor(props)]]
    /\ calls' = <<>>
    /\ lastOp' = HookOp("mount", h, element, NoInstance, NoInstance)
    /\ UNCHANGED <<cacheVars, groupVars, themeVars, engineVars>>

\* A later commit with new properties: the effects whose dependencies changed
Render(h, props) ==
    /\ hook[h].mounted
    /\ Settled
    /\ commits < MaxCommits
    /\ commits' = commits + 1
    /\ ~hook[h].thrown
    /\ props # hook[h].props
    /\ Effect1Changed(hook[h].props, props) => Cardinality(FreshInstances) > PendingInits
    /\ hook' = [hook EXCEPT ![h] =
                    [hook[h] EXCEPT !.props = props,
                                    !.pending = RenderStages(hook[h], props)]]
    /\ calls' = <<>>
    /\ lastOp' = HookOp("render", h, hook[h].element, NoInstance, NoInstance)
    /\ UNCHANGED <<cacheVars, groupVars, themeVars, engineVars>>

\* Strict double invocation: React tears the effects of a mounted binding down
\* and sets them up again, with the same properties and the same refs
StrictReplay(h) ==
    /\ hook[h].mounted
    /\ Settled
    /\ commits < MaxCommits
    /\ commits' = commits + 1
    /\ ~hook[h].thrown
    /\ Cardinality(FreshInstances) > PendingInits
    /\ hook' = [hook EXCEPT ![h] =
                    [hook[h] EXCEPT !.pending =
                        (IF hook[h].cleanup1 THEN <<"cleanup1">> ELSE <<>>)
                        \o (IF LazyProps(hook[h].props) \/ hook[h].lazyCleanup
                            THEN <<"effect1", "lazy", "effect2", "effect3",
                                   "effect4", "effect5">>
                            ELSE MountStages)
                        \o (IF AutoResizeProps(hook[h].props) THEN <<"effect6">>
                            ELSE <<>>)]]
    /\ calls' = <<>>
    /\ lastOp' = HookOp("strictReplay", h, hook[h].element, NoInstance, NoInstance)
    /\ UNCHANGED <<cacheVars, groupVars, themeVars, engineVars>>

\* ------------------------------------- hooks/use-echarts: Effect 1 cleanup
\* A cleanup that releases first and leaves the group and unbinds afterwards
Effect1CleanupCallsReleaseFirst(hk, inst, instGroup) ==
    releaseCachedInstanceCalls(instanceCache, hk.element)
    \o (IF instGroup # NoGroup
        THEN updateGroupCalls(groupRegistry, inst, instGroup, NoGroup)
        ELSE <<>>)
    \o unbindEvents(inst, hk.boundEventsRef)

\* The calls of the cleanup, in its order: leave the group the instance is
\* reported in, unbind the bound events, release the cache reference
Effect1CleanupCalls(hk, inst, instGroup) ==
    (IF instGroup # NoGroup
     THEN updateGroupCalls(groupRegistry, inst, instGroup, NoGroup)
     ELSE <<>>)
    \o unbindEvents(inst, hk.boundEventsRef)
    \o releaseCachedInstanceCalls(instanceCache, hk.element)

\* The cleanup returned by Effect 1; next is the binding's state afterwards and
\* after the calls of the cleanups that run after it
Effect1CleanupBody(h, next, after) ==
    LET hk == hook[h]
        element == hk.element
        inst == getCachedInstance(instanceCache, element)
        instGroup == getInstanceGroup(groupRegistry, inst)
    IN
    IF inst = NoInstance
    THEN /\ hook' = [hook EXCEPT ![h] = next]
         /\ calls' = after
         /\ UNCHANGED <<cacheVars, groupVars, themeVars, engineVars>>
    ELSE /\ groupRegistry' =
                IF instGroup # NoGroup
                THEN updateGroup(groupRegistry, inst, instGroup, NoGroup)
                ELSE groupRegistry
         /\ instanceCache' = releaseCachedInstance(instanceCache, element)
         /\ trackedElements' =
                trackRemove(cacheRevision, instanceCache, trackedElements, element)
         /\ calls' = Effect1CleanupCalls(hk, inst, instGroup) \o after
         /\ connectState' = ConnectAll(connectState, calls')
         /\ handlers' = HandlersAll(handlers, calls')
         /\ disposeCount' = DisposeAll(disposeCount, calls')
         /\ hook' = [hook EXCEPT ![h] = [next EXCEPT !.boundEventsRef = NoEvents]]
         /\ UNCHANGED <<cacheRevision, instDom, instTheme, loading, groupProp,
                        lastSetOption, themeVars>>

Effect1Cleanup(h) ==
    /\ Stage(h, "cleanup1")
    /\ commits' = commits
    /\ Effect1CleanupBody(h, AfterStage([hook[h] EXCEPT !.cleanup1 = FALSE]), <<>>)
    /\ lastOp' = HookOp("cleanup1", h, hook[h].element,
                        getCachedInstance(instanceCache, hook[h].element), NoInstance)

\* The cleanup returned by Effect 6: resizeObserver?.disconnect()
Effect6CleanupCalls(hk) ==
    IF hk.resizeObserver = "observing"
    THEN <<Call("disconnectResize", NoInstance, hk.element, "")>>
    ELSE <<>>

\* The binding goes away: the cleanups run in the order of their effects, that
\* of Effect 1 if it returned one, that of Effect 6 last
Unmount(h) ==
    /\ hook[h].mounted
    /\ Settled
    /\ commits < MaxCommits
    /\ commits' = commits + 1
    /\ IF hook[h].cleanup1
       THEN Effect1CleanupBody(h, UnmountedHook, Effect6CleanupCalls(hook[h]))
       ELSE /\ hook' = [hook EXCEPT ![h] = UnmountedHook]
            /\ calls' = (IF hook[h].lazyCleanup
                         THEN <<Call("disconnect", NoInstance, hook[h].element, "")>>
                         ELSE <<>>)
                        \o Effect6CleanupCalls(hook[h])
            /\ UNCHANGED <<cacheVars, groupVars, themeVars, engineVars>>
    /\ lastOp' = HookOp("unmount", h, hook[h].element,
                        getCachedInstance(instanceCache, hook[h].element), NoInstance)

\* --------------------------------------- hooks/use-echarts: Effect 1 setup
\* Theme registration at the head of Effect 1: ensureBuiltinThemesRegistered,
\* then resolveThemeName (which registers a custom theme object)
Effect1Themes(theme) ==
    /\ builtinThemesRegistered' = TRUE
    /\ customThemeCache' =
            IF theme.kind = "object"
            THEN customThemeCacheAfter(themesRevision, customThemeCache,
                    contentHashCache, customThemeCounter, theme.object)
            ELSE customThemeCache
    /\ contentHashCache' =
            IF theme.kind = "object"
            THEN contentHashCacheAfter(themesRevision, customThemeCache,
                    contentHashCache, customThemeCounter, theme.object)
            ELSE contentHashCache
    /\ customThemeCounter' =
            IF theme.kind = "object"
            THEN customThemeCounterAfter(themesRevision, customThemeCache,
                    contentHashCache, customThemeCounter, theme.object)
            ELSE customThemeCounter
    /\ registerThemeCalls' =
            registerThemeCalls
            \o ensureBuiltinThemesRegisteredCalls(builtinThemesRegistered)
            \o (IF theme.kind = "object"
                THEN getOrRegisterCustomThemeCalls(themesRevision, customThemeCache,
                        contentHashCache, customThemeCounter, theme.object)
                ELSE <<>>)
    /\ UNCHANGED themesRevision

\* The theme descriptors a binding may be given: none, a built-in name, an
\* unrecognized string, a custom object
ThemeDescriptors ==
    { NullTheme, StringTheme("light"), StringTheme("dark"), StringTheme("mytheme") }
    \cup { ObjectTheme(object) : object \in ThemeObjects }

\* Lines 181-182 of Effect 1 on their own: the theme is resolved to the name
\* echarts.init is given, during render its key was computed
ResolveTheme(theme) ==
    /\ Effect1Themes(theme)
    /\ calls' = <<>>
    /\ lastOp' = [ThemeOp("resolveThemeName", theme.object.ref,
                          resolveThemeName(themesRevision, customThemeCache,
                              contentHashCache, customThemeCounter, theme))
                    EXCEPT !.hook = computeThemeKey(theme)]
    /\ UNCHANGED <<cacheVars, groupVars, engineVars, hookVars>>

\* the engine calls of Effect 1 once init has returned instance
\* Faulty variant of the init catch block: a cleanup is returned all the same
Effect1InitFailedRegisters(hk) == AfterStage([hk EXCEPT !.cleanup1 = TRUE])

\* The init catch block returns from Effect 1: no cleanup, no ref is written
Effect1InitFailed(hk) == AfterStage([hk EXCEPT !.cleanup1 = FALSE])

\* Faulty variant of Effect 1: a failing initial setOption ends the effect
Effect1CallsStopsOnError(props, instance, setOptionThrows) ==
    IF setOptionThrows
    THEN <<Call("setOption", instance, props.option, props.setOptionOpts),
           Raise("setOption")>> \o ErrorCalls(props, "console.error")
    ELSE <<Call("setOption", instance, props.option, props.setOptionOpts)>>
         \o (IF props.showLoading
             THEN <<Call("showLoading", instance, props.loadingOption, "")>>
             ELSE <<>>)
         \o bindEvents(instance, props.onEvents)
         \o (IF props.group # NoGroup
             THEN updateGroupCalls(groupRegistry, instance, NoGroup, props.group)
             ELSE <<>>)

Effect1Calls(props, instance, setOptionThrows) ==
    <<Call("setOption", instance, props.option, props.setOptionOpts)>>
    \o (IF setOptionThrows
        THEN <<Raise("setOption")>> \o ErrorCalls(props, "console.error")
        ELSE <<>>)
    \o (IF props.showLoading
        THEN <<Call("showLoading", instance, props.loadingOption, "")>>
        ELSE <<>>)
    \o bindEvents(instance, props.onEvents)
    \o (IF props.group # NoGroup
        THEN updateGroupCalls(groupRegistry, instance, NoGroup, props.group)
        ELSE <<>>)

Effect1(h, failures) ==
    /\ Stage(h, "effect1")
    /\ commits' = commits
    /\ LET hk == hook[h]
           element == hk.element
           props == hk.props
           resolvedTheme == resolveThemeName(themesRevision, customThemeCache,
                                contentHashCache, customThemeCounter, props.theme)
       IN
       IF ~hk.shouldInit \/ element = NoElement
       THEN /\ hook' = [hook EXCEPT ![h] = AfterStage([hk EXCEPT !.cleanup1 = FALSE])]
            /\ calls' = <<>>
            /\ lastOp' = HookOp("effect1", h, element, NoInstance, NoInstance)
            /\ UNCHANGED <<cacheVars, groupVars, themeVars, engineVars>>
       ELSE
       /\ Effect1Themes(props.theme)
       /\ \E instance \in InitOutcomes(element, failures),
             setOptionThrows \in Throws("setOption", failures) :
            IF instance = InitThrows
            THEN /\ ~setOptionThrows
                 /\ calls' = <<Call("init", InitThrows, element, resolvedTheme),
                               Raise("init")>>
                             \o ErrorCalls(props, "console.error")
                 /\ hook' = [hook EXCEPT ![h] = Effect1InitFailed(hk)]
                 /\ lastOp' = HookOp("effect1", h, element, InitThrows, NoInstance)
                 /\ UNCHANGED <<cacheVars, groupVars, engineVars>>
            ELSE /\ instDom' = [instDom EXCEPT ![instance] = element]
                 /\ instTheme' = IF instDom[instance] = NoElement
                                 THEN [instTheme EXCEPT ![instance] = resolvedTheme]
                                 ELSE instTheme
                 /\ instanceCache' = setCachedInstance(instanceCache, element, instance)
                 /\ trackedElements' =
                        trackAdd(cacheRevision, instanceCache, trackedElements, element)
                 /\ groupRegistry' =
                        IF props.group # NoGroup
                        THEN updateGroup(groupRegistry, instance, NoGroup, props.group)
                        ELSE groupRegistry
                 /\ calls' = <<Call("init", instance, element, resolvedTheme)>>
                             \o Effect1Calls(props, instance, setOptionThrows)
                 /\ connectState' = ConnectAll(connectState, calls')
                 /\ handlers' = HandlersAll(handlers, calls')
                 /\ loading' = LoadingAll(loading, calls')
                 /\ hook' = [hook EXCEPT ![h] =
                        AfterStage([hk EXCEPT
                            !.lastAppliedRef =
                                IF setOptionThrows THEN @
                                ELSE Applied(props.option, props.setOptionOpts),
                            !.boundEventsRef = props.onEvents,
                            !.cleanup1 = TRUE])]
                 /\ lastOp' = HookOp("effect1", h, element, instance,
                        setCachedInstanceReturn(instanceCache, element, instance))
                 /\ lastSetOption' =
                        IF setOptionThrows THEN lastSetOption
                        ELSE [lastSetOption EXCEPT ![instance] =
                                Applied(props.option, props.setOptionOpts)]
                 /\ UNCHANGED <<cacheRevision, disposeCount, groupProp>>

\* --------------------------------------------- hooks/use-lazy-init
\* The effect of useLazyInit, cleanup of its previous run included: without lazy
\* mode, in view or without a container it returns; otherwise it creates an
\* IntersectionObserver and observes the container
LazyEffect(h) ==
    /\ Stage(h, "lazy")
    /\ commits' = commits
    /\ LET hk == hook[h]
           observes == LazyProps(hk.props) /\ ~hk.shouldInit /\ hk.element # NoElement
       IN
       /\ calls' = (IF hk.lazyCleanup
                    THEN <<Call("disconnect", NoInstance, hk.element, "")>>
                    ELSE <<>>)
                   \o (IF observes
                       THEN <<Call("observe", NoInstance, hk.element, "")>>
                       ELSE <<>>)
       /\ hook' = [hook EXCEPT ![h] =
                AfterStage([hk EXCEPT
                    !.lazyCleanup = observes,
                    !.observer = IF observes THEN "observing"
                                 ELSE IF hk.lazyCleanup THEN "disconnected"
                                 ELSE @])]
       /\ lastOp' = HookOp("lazy", h, hk.element, NoInstance, NoInstance)
    /\ UNCHANGED <<cacheVars, groupVars, themeVars, engineVars>>

\* Faulty variant of the observer callback: any entry counts as visible
observerCallbackSetsAlways(isIntersecting) == TRUE

\* The observer callback acts on an intersecting entry only
observerCallbackSets(isIntersecting) == isIntersecting

\* The IntersectionObserver delivers an entry to the callback of a binding that
\* is observing: an intersecting entry sets isInView and disconnects the
\* observer; the state change re-renders, and shouldInit is a dependency of
\* Effect 1 and of the effect of useLazyInit
Intersect(h, isIntersecting) ==
    /\ hook[h].mounted
    /\ Settled
    /\ hook[h].observer = "observing"
    /\ IF observerCallbackSets(isIntersecting)
       THEN /\ commits < MaxCommits
            /\ commits' = commits + 1
            /\ Cardinality(FreshInstances) > PendingInits
            /\ calls' = <<Call("disconnect", NoInstance, hook[h].element, "")>>
            /\ hook' = [hook EXCEPT ![h] =
                    [hook[h] EXCEPT
                        !.shouldInit = TRUE,
                        !.observer = "disconnected",
                        !.pending = (IF hook[h].cleanup1 THEN <<"cleanup1">> ELSE <<>>)
                                    \o <<"effect1", "lazy">>]]
       ELSE /\ commits' = commits
            /\ calls' = <<>>
            /\ hook' = hook
    /\ lastOp' = HookOp("intersect", h, hook[h].element, NoInstance,
                        IF isIntersecting THEN 1 ELSE 0)
    /\ UNCHANGED <<cacheVars, groupVars, themeVars, engineVars>>

\* ------------------------------------- hooks/use-echarts: Effects 2 to 5
\* getInstance of the public API
getInstance(h) ==
    IF hook[h].element = NoElement THEN NoInstance
    ELSE getCachedInstance(instanceCache, hook[h].element)

\* Faulty variant of the Effect 2 guard: the baseline is not consulted
Effect2SkipsNever(instance, last, props) ==
    instance = NoInstance

\* Faulty variant of the Effect 2 guard: setOptionOpts is not compared
Effect2SkipsOnOption(instance, last, props) ==
    \/ instance = NoInstance
    \/ (last.set /\ last.option = props.option)

\* Effect 2 returns early without an instance, or when the init effect already
\* applied this exact option and setOptionOpts
Effect2Skips(instance, last, props) ==
    \/ instance = NoInstance
    \/ (last.set /\ last.option = props.option /\ last.opts = props.setOptionOpts)

\* Effect 2: option updates; an uncaught throw ends the binding's pass
Effect2(h, failures) ==
    /\ Stage(h, "effect2")
    /\ commits' = commits
    /\ LET hk == hook[h]
           props == hk.props
           instance == getInstance(h)
           last == hk.lastAppliedRef
       IN
       /\ lastOp' = HookOp("effect2", h, hk.element, instance, NoInstance)
       /\ IF Effect2Skips(instance, last, props)
          THEN /\ calls' = <<>>
               /\ hook' = [hook EXCEPT ![h] = AfterStage(hk)]
               /\ lastSetOption' = lastSetOption
          ELSE \E throws \in Throws("setOption", failures) :
               /\ lastSetOption' =
                      IF throws THEN lastSetOption
                      ELSE [lastSetOption EXCEPT ![instance] =
                              Applied(props.option, props.setOptionOpts)]
               /\ calls' = <<Call("setOption", instance, props.option,
                                  props.setOptionOpts)>>
                           \o (IF throws
                               THEN <<Raise("setOption")>> \o ErrorCalls(props, "throw")
                               ELSE <<>>)
               /\ hook' = [hook EXCEPT ![h] =
                      IF ~throws
                      THEN AfterStage([hk EXCEPT !.lastAppliedRef =
                                Applied(props.option, props.setOptionOpts)])
                      ELSE IF props.onError THEN AfterStage(hk)
                      ELSE [hk EXCEPT !.pending = <<>>, !.thrown = TRUE]]
    /\ UNCHANGED <<cacheVars, groupVars, themeVars, disposeCount, instDom, instTheme,
                   handlers, loading, groupProp>>

\* SetOptionOpts values: "" stands for undefined, the other tokens for an
\* object, given as its own properties in insertion order
OptsProp(key, value) == [key |-> key, value |-> value]
OptsObject(token) ==
    IF token = "notMerge" THEN <<OptsProp("notMerge", "true")>>
    ELSE IF token = "merge" THEN <<OptsProp("notMerge", "false")>>
    ELSE IF token = "lazyUpdate" THEN <<OptsProp("lazyUpdate", "true")>>
    ELSE <<>>

\* one property copied by a spread: an existing key keeps its place and takes
\* the new value, a new key is appended
SetProp(object, prop) ==
    IF \E k \in DOMAIN object : object[k].key = prop.key
    THEN [k \in DOMAIN object |->
            IF object[k].key = prop.key THEN prop ELSE object[k]]
    ELSE Append(object, prop)

\* { ...target, ...source }
RECURSIVE spread(_, _)
spread(target, source) ==
    IF source = <<>> THEN target
    ELSE spread(SetProp(target, Head(source)), Tail(source))

RECURSIVE stringifyOptsProps(_, _)
stringifyOptsProps(object, first) ==
    IF object = <<>> THEN ""
    ELSE (IF first THEN "" ELSE ",") \o Head(object).key \o ":" \o Head(object).value
         \o stringifyOptsProps(Tail(object), FALSE)

\* the object as it shows in the call log
stringifyOpts(object) == "{" \o stringifyOptsProps(object, TRUE) \o "}"

\* Faulty variant of the merge: the defaults win over the override
mergeOptsBaseWins(base, opts) ==
    stringifyOpts(spread(spread(<<>>, OptsObject(opts)), OptsObject(base)))

\* finalOpts = { ...setOptionOptsRef.current, ...opts }
mergeOpts(base, opts) ==
    stringifyOpts(spread(spread(<<>>, OptsObject(base)), OptsObject(opts)))

\* the override options a caller may pass, by their position in the log record
OverrideOpts == <<"", "notMerge", "merge", "lazyUpdate">>
OverrideIndex(opts) == CHOOSE k \in DOMAIN OverrideOpts : OverrideOpts[k] = opts

\* setOption of the public API, called between commits
ApiSetOption(h, newOption, opts, failures) ==
    /\ hook[h].mounted
    /\ Settled
    /\ ~hook[h].thrown
    /\ LET hk == hook[h]
           instance == getInstance(h)
       IN
       /\ lastOp' = HookOp("apiSetOption", h, hk.element, instance, OverrideIndex(opts))
       /\ IF instance = NoInstance
          THEN calls' = <<>>
          ELSE \E throws \in Throws("setOption", failures) :
               calls' = <<Call("setOption", instance, newOption,
                               mergeOpts(hk.props.setOptionOpts, opts))>>
                        \o (IF throws
                            THEN <<Raise("setOption")>> \o ErrorCalls(hk.props, "throw")
                            ELSE <<>>)
    /\ UNCHANGED <<cacheVars, groupVars, themeVars, engineVars, hookVars>>

\* getInstance of the public API, called between commits
ApiGetInstance(h) ==
    /\ hook[h].mounted
    /\ Settled
    /\ ~hook[h].thrown
    /\ lastOp' = HookOp("apiGetInstance", h, hook[h].element, NoInstance, getInstance(h))
    /\ calls' = <<>>
    /\ UNCHANGED <<cacheVars, groupVars, themeVars, engineVars, hookVars>>

\* resize of the public API: getInstance()?.resize()
ApiResize(h) ==
    /\ hook[h].mounted
    /\ Settled
    /\ ~hook[h].thrown
    /\ lastOp' = HookOp("apiResize", h, hook[h].element, getInstance(h), NoInstance)
    /\ calls' = IF getInstance(h) = NoInstance THEN <<>>
                ELSE <<Call("resize", getInstance(h), "", "")>>
    /\ UNCHANGED <<cacheVars, groupVars, themeVars, engineVars, hookVars>>

\* Faulty variant of Effect 3: the loading display is never hidden
Effect3CallsNeverHides(instance, props) ==
    IF instance = NoInstance \/ ~props.showLoading THEN <<>>
    ELSE <<Call("showLoading", instance, props.loadingOption, "")>>

\* Effect 3 returns without an instance; otherwise it shows the loading display
\* with the current options, or hides it
Effect3Calls(instance, props) ==
    IF instance = NoInstance THEN <<>>
    ELSE IF props.showLoading
    THEN <<Call("showLoading", instance, props.loadingOption, "")>>
    ELSE <<Call("hideLoading", instance, "", "")>>

\* Effect 3: loading state
Effect3(h) ==
    /\ Stage(h, "effect3")
    /\ commits' = commits
    /\ LET hk == hook[h]
           instance == getInstance(h)
       IN
       /\ lastOp' = HookOp("effect3", h, hk.element, instance, NoInstance)
       /\ calls' = Effect3Calls(instance, hk.props)
       /\ loading' = LoadingAll(loading, calls')
       /\ hook' = [hook EXCEPT ![h] = AfterStage(hk)]
    /\ UNCHANGED <<cacheVars, groupVars, themeVars, disposeCount, instDom, instTheme,
                   handlers, groupProp, lastSetOption>>

\* Faulty variant of the Effect 4 guards: the instance is not looked at
Effect4RebindsUnguarded(h) ==
    hook[h].boundEventsRef # hook[h].props.onEvents

\* Effect 4 goes on with an instance and a table other than the bound one
Effect4Rebinds(h) ==
    /\ getInstance(h) # NoInstance
    /\ hook[h].boundEventsRef # hook[h].props.onEvents

\* Faulty variant of Effect 4: the old table is never unbound
Effect4CallsKeepsOld(instance, boundEvents, onEvents) ==
    bindEvents(instance, onEvents)

Effect4Calls(instance, boundEvents, onEvents) ==
    unbindEvents(instance, boundEvents) \o bindEvents(instance, onEvents)

Effect4(h) ==
    /\ Stage(h, "effect4")
    /\ commits' = commits
    /\ LET hk == hook[h]
           instance == getInstance(h)
       IN
       /\ lastOp' = HookOp("effect4", h, hk.element, instance, NoInstance)
       /\ IF Effect4Rebinds(h)
          THEN /\ calls' = Effect4Calls(instance, hk.boundEventsRef, hk.props.onEvents)
               /\ hook' = [hook EXCEPT ![h] =
                      AfterStage([hk EXCEPT !.boundEventsRef = hk.props.onEvents])]
          ELSE /\ calls' = <<>>
               /\ hook' = [hook EXCEPT ![h] = AfterStage(hk)]
       /\ handlers' = HandlersAll(handlers, calls')
    /\ UNCHANGED <<cacheVars, groupVars, themeVars, disposeCount, instDom, instTheme,
                   loading, groupProp, lastSetOption>>

\* Faulty variant of the Effect 5 guard: an instance that is in a group stays
Effect5SkipsWhenGrouped(instance, currentGroup, props) ==
    instance = NoInstance \/ currentGroup # NoGroup

\* Effect 5 returns early without an instance, or when the instance's actual
\* group is the configured one
Effect5Skips(instance, currentGroup, props) ==
    instance = NoInstance \/ currentGroup = props.group

\* Effect 5: group changes
Effect5(h) ==
    /\ Stage(h, "effect5")
    /\ commits' = commits
    /\ LET hk == hook[h]
           instance == getInstance(h)
           currentGroup == getInstanceGroup(groupRegistry, instance)
       IN
       /\ lastOp' = HookOp("effect5", h, hk.element, instance, NoInstance)
       /\ IF Effect5Skips(instance, currentGroup, hk.props)
          THEN /\ calls' = <<>>
               /\ groupRegistry' = groupRegistry
          ELSE /\ calls' = updateGroupCalls(groupRegistry, instance, currentGroup,
                                            hk.props.group)
               /\ groupRegistry' = updateGroup(groupRegistry, instance, currentGroup,
                                               hk.props.group)
       /\ connectState' = ConnectAll(connectState, calls')
       /\ hook' = [hook EXCEPT ![h] = AfterStage(hk)]
    /\ UNCHANGED <<cacheVars, themeVars, engineVars>>

\* ------------------------------------- hooks/use-echarts: Effect 6
\* Faulty variant of the Effect 6 guard: autoResize is not consulted
Effect6ObservesAlways(props, element) == element # NoElement

\* Effect 6 returns early without autoResize or without a container
Effect6Observes(props, element) == AutoResizeProps(props) /\ element # NoElement

\* Faulty variant of the catch block of Effect 6: the error goes to onError
ResizeObserverFailedCallsOnError(props) ==
    <<Raise("ResizeObserver")>> \o ErrorCalls(props, "console.warn")

\* new ResizeObserver threw: the catch block logs a warning
ResizeObserverFailedCalls(props) ==
    <<Raise("ResizeObserver"), Call("console.warn", NoInstance, "", "")>>

\* Effect 6, cleanup of its previous run included: it creates a ResizeObserver
\* on the container and observes it, or logs a warning when that throws
Effect6(h, failures) ==
    /\ Stage(h, "effect6")
    /\ commits' = commits
    /\ LET hk == hook[h]
           observes == Effect6Observes(hk.props, hk.element)
       IN
       \E throws \in Throws("ResizeObserver", failures) :
          /\ throws => observes
          /\ calls' = Effect6CleanupCalls(hk)
                      \o (IF ~observes THEN <<>>
                          ELSE IF throws THEN ResizeObserverFailedCalls(hk.props)
                          ELSE <<Call("observeResize", NoInstance, hk.element, "")>>)
          /\ hook' = [hook EXCEPT ![h] =
                   AfterStage([hk EXCEPT
                       !.resizeObserver =
                            IF observes /\ ~throws THEN "observing"
                            ELSE IF @ = "observing" THEN "disconnected"
                            ELSE @])]
          /\ lastOp' = HookOp("effect6", h, hk.element, NoInstance,
                              IF throws THEN 1 ELSE 0)
    /\ UNCHANGED <<cacheVars, groupVars, themeVars, engineVars>>

\* the callback of the ResizeObserver: getCachedInstance(element)?.resize()
\* Faulty variant of the observer callback: it resizes the instance that was
\* created first on the container, not the one the cache holds now
resizeObserverCallbackCaptured(cache, element) ==
    LET made == {i \in Instances : instDom[i] = element} IN
    IF made = {} THEN <<>>
    ELSE <<Call("resize", CHOOSE i \in made : \A j \in made : i <= j, "", "")>>

resizeObserverCallback(cache, element) ==
    IF getCachedInstance(cache, element) = NoInstance THEN <<>>
    ELSE <<Call("resize", getCachedInstance(cache, element), "", "")>>

\* The ResizeObserver of a binding that is observing notifies its callback
ResizeNotify(h) ==
    /\ hook[h].mounted
    /\ Settled
    /\ hook[h].resizeObserver = "observing"
    /\ calls' = resizeObserverCallback(instanceCache, hook[h].element)
    /\ lastOp' = HookOp("resizeNotify", h, hook[h].element,
                        getCachedInstance(instanceCache, hook[h].element), NoInstance)
    /\ UNCHANGED <<cacheVars, groupVars, themeVars, engineVars, hookVars>>

\* ------------------------------------------------------- specifications
\* Nothing cached, no group, no custom theme.  Revision 1 of themes/index
\* registers the built-in themes when the module loads.
InitState(cacheRev, themesRev) ==
    /\ cacheRevision = cacheRev
    /\ instanceCache = <<>>
    /\ trackedElements = {}
    /\ groupRegistry = <<>>
    /\ connectState = [g \in GroupIds |-> "none"]
    /\ themesRevision = themesRev
    /\ customThemeCache = <<>>
    /\ contentHashCache = <<>>
    /\ customThemeCounter = 0
    /\ builtinThemesRegistered = FALSE
    /\ registerThemeCalls = (IF themesRev = 1 THEN registerBuiltinThemesCalls ELSE <<>>)
    /\ disposeCount = [i \in Instances |-> 0]
    /\ instDom = [i \in Instances |-> NoElement]
    /\ instTheme = [i \in Instances |-> NullName]
    /\ handlers = [i \in Instances |-> {}]
    /\ loading = [i \in Instances |-> LoadingHidden]
    /\ groupProp = [i \in Instances |-> NoGroup]
    /\ lastSetOption = [i \in Instances |-> NoApplied]
    /\ hook = [h \in Hooks |-> UnmountedHook]
    /\ commits = 0
    /\ calls = <<>>
    /\ lastOp = Op("load", NoElement, NoInstance, NoInstance)

InitCache == \E cacheRev \in {1, 2} : InitState(cacheRev, 2)

NextCache ==
    \/ \E e \in Elements, i \in Instances : CallSetCachedInstance(e, i)
    \/ \E e \in Elements, i \in Instances : CallReplaceCachedInstance(e, i)
    \/ \E e \in Elements : CallReleaseCachedInstance(e)
    \/ CallClearInstanceCache

SpecCache == InitCache /\ [][NextCache]_vars

NextGroups ==
    \/ \E i \in Instances, g \in GroupIds : CallAddToGroup(i, g)
    \/ \E i \in Instances, g \in GroupIds : CallRemoveFromGroup(i, g)
    \/ \E i \in Instances, old, new \in GroupIds \cup {NoGroup} : CallUpdateGroup(i, old, new)
    \/ CallClearGroups

InitGroups == InitState(1, 2)

SpecGroups == InitGroups /\ [][NextGroups]_vars

InitThemes == \E themesRev \in {1, 2} : InitState(1, themesRev)

NextThemes ==
    \/ \E theme \in ThemeObjects : CallGetOrRegisterCustomTheme(theme)
    \/ CallEnsureBuiltinThemesRegistered

SpecThemes == InitThemes /\ [][NextThemes]_vars

\* The hook's revision of themes/index, with theme descriptors resolved one
\* after the other as the first lines of Effect 1 do
NextThemeKeys == \E theme \in ThemeDescriptors : ResolveTheme(theme)

SpecThemeKeys == InitState(2, 2) /\ [][NextThemeKeys]_vars

\* The bindings, over either revision of the instance cache
Init == \E cacheRev \in {1, 2} : InitState(cacheRev, 2)

Next ==
    \/ \E h \in Hooks, element \in Elements, props \in HookProps :
            Mount(h, element, props)
    \/ \E h \in Hooks, props \in HookProps : Render(h, props)
    \/ \E h \in Hooks : Effect1Cleanup(h)
    \/ \E h \in Hooks : Effect1(h, {})
    \/ \E h \in Hooks : Effect2(h, {})
    \/ \E h \in Hooks : Effect3(h)
    \/ \E h \in Hooks : Effect4(h)
    \/ \E h \in Hooks : Effect5(h)
    \/ \E h \in Hooks : Unmount(h)

Spec == Init /\ [][Next]_vars

\* One binding and no engine failure: mounts, re-renders with another theme or
\* option, strict double invocations and unmounts
SessionProps ==
    { [Props(theme, NoEvents, NoGroup) EXCEPT !.option = option] :
        theme \in {NullTheme, StringTheme("light"), StringTheme("dark")},
        option \in {"o1", "o2"} }

NextSession ==
    \/ \E element \in Elements, props \in SessionProps : Mount("h1", element, props)
    \/ \E props \in SessionProps : Render("h1", props)
    \/ StrictReplay("h1")
    \/ Effect1Cleanup("h1")
    \/ Effect1("h1", {})
    \/ Effect2("h1", {})
    \/ Effect3("h1")
    \/ Effect4("h1")
    \/ Effect5("h1")
    \/ Unmount("h1")

SpecSession == Init /\ [][NextSession]_vars

\* One binding whose lazyInit setting varies, with viewport signals
LazySessionProps ==
    { [Props(NullTheme, NoEvents, NoGroup) EXCEPT !.lazyInit = lazyInit] :
        lazyInit \in LazySettings }

NextLazy ==
    \/ \E element \in Elements, props \in LazySessionProps : Mount("h1", element, props)
    \/ \E props \in LazySessionProps : Render("h1", props)
    \/ \E isIntersecting \in BOOLEAN : Intersect("h1", isIntersecting)
    \/ StrictReplay("h1")
    \/ LazyEffect("h1")
    \/ Effect1Cleanup("h1")
    \/ Effect1("h1", {})
    \/ Effect2("h1", {})
    \/ Effect3("h1")
    \/ Effect4("h1")
    \/ Effect5("h1")
    \/ Unmount("h1")

SpecLazy == Init /\ [][NextLazy]_vars

\* One binding and an engine whose init and setOption may throw, with and
\* without an onError callback; the binding has loading, events and a group
Failures == {"init", "setOption"}

FailureProps ==
    { [Props(theme, EventTable(1, <<EventEntry("click", "f1", "", "")>>), "gA")
         EXCEPT !.option = option, !.onError = onError, !.showLoading = TRUE] :
        theme \in {NullTheme}, option \in {"o1", "o2"}, onError \in BOOLEAN }
    \cup
    { [Props(StringTheme("dark"), EventTable(1, <<EventEntry("click", "f1", "", "")>>), "gA")
         EXCEPT !.onError = onError, !.showLoading = TRUE] : onError \in BOOLEAN }

NextFailures ==
    \/ \E element \in Elements, props \in FailureProps : Mount("h1", element, props)
    \/ \E props \in FailureProps : Render("h1", props)
    \/ Effect1Cleanup("h1")
    \/ Effect1("h1", Failures)
    \/ Effect2("h1", Failures)
    \/ Effect3("h1")
    \/ Effect4("h1")
    \/ Effect5("h1")
    \/ Unmount("h1")
    \/ \E opts \in {"", "notMerge"} : ApiSetOption("h1", "o2", opts, Failures)

SpecFailures == Init /\ [][NextFailures]_vars

\* Two bindings, which may share a container, and an engine whose init may throw
InitFailureProps ==
    { [Props(theme, NoEvents, NoGroup) EXCEPT !.onError = onError] :
        theme \in HookThemes, onError \in BOOLEAN }

NextSharedFailures ==
    \/ \E h \in Hooks, element \in Elements, props \in InitFailureProps :
            Mount(h, element, props)
    \/ \E h \in Hooks, props \in InitFailureProps : Render(h, props)
    \/ \E h \in Hooks : Effect1Cleanup(h)
    \/ \E h \in Hooks : Effect1(h, {"init"})
    \/ \E h \in Hooks : Effect2(h, {})
    \/ \E h \in Hooks : Effect3(h)
    \/ \E h \in Hooks : Effect4(h)
    \/ \E h \in Hooks : Effect5(h)
    \/ \E h \in Hooks : Unmount(h)

SpecSharedFailures == Init /\ [][NextSharedFailures]_vars

\* One binding, its public API called between commits, with and without
\* default update options, in lazy mode or not
ApiProps ==
    { [Props(NullTheme, NoEvents, NoGroup)
         EXCEPT !.setOptionOpts = setOptionOpts, !.lazyInit = lazyInit] :
        setOptionOpts \in {"", "notMerge"}, lazyInit \in {LazyAbsent, "true"} }

NextApi ==
    \/ \E element \in Elements, props \in ApiProps : Mount("h1", element, props)
    \/ \E props \in ApiProps : Render("h1", props)
    \/ \E isIntersecting \in BOOLEAN : Intersect("h1", isIntersecting)
    \/ LazyEffect("h1")
    \/ Effect1("h1", {})
    \/ Effect2("h1", {})
    \/ Effect3("h1")
    \/ Effect4("h1")
    \/ Effect5("h1")
    \/ Unmount("h1")
    \/ \E opts \in {"", "merge", "lazyUpdate"} : ApiSetOption("h1", "o2", opts, {})
    \/ ApiGetInstance("h1")
    \/ ApiResize("h1")

SpecApi == Init /\ [][NextApi]_vars

\* Two bindings on one container whose group and theme vary, possibly lazy
MembershipProps ==
    { Props(theme, NoEvents, group) :
        theme \in HookThemes, group \in {NoGroup, "gA"} }
    \cup { Props(NullTheme, NoEvents, "gB"),
           [Props(NullTheme, NoEvents, "gA") EXCEPT !.lazyInit = "true"] }

NextMembership ==
    \/ \E h \in Hooks, props \in MembershipProps : Mount(h, "e1", props)
    \/ \E h \in Hooks, props \in MembershipProps : Render(h, props)
    \/ \E h \in Hooks, isIntersecting \in BOOLEAN : Intersect(h, isIntersecting)
    \/ \E h \in Hooks : LazyEffect(h)
    \/ \E h \in Hooks : Effect1Cleanup(h)
    \/ \E h \in Hooks : Effect1(h, {})
    \/ \E h \in Hooks : Effect2(h, {})
    \/ \E h \in Hooks : Effect3(h)
    \/ \E h \in Hooks : Effect4(h)
    \/ \E h \in Hooks : Effect5(h)
    \/ \E h \in Hooks : Unmount(h)

SpecMembership == Init /\ [][NextMembership]_vars

\* Two bindings on one container whose loading settings and theme vary
LoadingProps ==
    { [Props(theme, NoEvents, NoGroup) EXCEPT !.showLoading = TRUE,
                                              !.loadingOption = loadingOption] :
        theme \in HookThemes, loadingOption \in {"l1", "l2"} }
    \cup { Props(theme, NoEvents, NoGroup) : theme \in HookThemes }

NextLoading ==
    \/ \E h \in Hooks, props \in LoadingProps : Mount(h, "e1", props)
    \/ \E h \in Hooks, props \in LoadingProps : Render(h, props)
    \/ \E h \in Hooks : Effect1Cleanup(h)
    \/ \E h \in Hooks : Effect1(h, {})
    \/ \E h \in Hooks : Effect2(h, {})
    \/ \E h \in Hooks : Effect3(h)
    \/ \E h \in Hooks : Effect4(h)
    \/ \E h \in Hooks : Effect5(h)
    \/ \E h \in Hooks : Unmount(h)

SpecLoading == Init /\ [][NextLoading]_vars

\* One binding whose event table holds shorthand entries
ShorthandProps ==
    { Props(theme, onEvents, NoGroup) :
        theme \in HookThemes, onEvents \in ShorthandTables }

NextShorthand ==
    \/ \E element \in Elements, props \in ShorthandProps : Mount("h1", element, props)
    \/ \E props \in ShorthandProps : Render("h1", props)
    \/ Effect1Cleanup("h1")
    \/ Effect1("h1", {})
    \/ Effect2("h1", {})
    \/ Effect3("h1")
    \/ Effect4("h1")
    \/ Effect5("h1")
    \/ Unmount("h1")

SpecShorthand == Init /\ [][NextShorthand]_vars

\* One binding with and without autoResize, in an environment where the
\* ResizeObserver constructor may throw
ResizeFailures == {"ResizeObserver"}
ResizeProps ==
    { [Props(theme, EventTable(1, <<EventEntry("click", "f1", "", "")>>), "gA")
          EXCEPT !.autoResize = autoResize, !.onError = onError] :
        theme \in HookThemes, autoResize \in AutoResizeSettings, onError \in BOOLEAN }
    \cup { [Props(NullTheme, NoEvents, NoGroup)
              EXCEPT !.autoResize = AutoResizeAbsent, !.lazyInit = "true"] }

NextResize ==
    \/ \E element \in Elements, props \in ResizeProps : Mount("h1", element, props)
    \/ \E props \in ResizeProps : Render("h1", props)
    \/ \E isIntersecting \in BOOLEAN : Intersect("h1", isIntersecting)
    \/ LazyEffect("h1")
    \/ Effect1Cleanup("h1")
    \/ Effect1("h1", {})
    \/ Effect2("h1", {})
    \/ Effect3("h1")
    \/ Effect4("h1")
    \/ Effect5("h1")
    \/ Effect6("h1", ResizeFailures)
    \/ ResizeNotify("h1")
    \/ Unmount("h1")

SpecResize == Init /\ [][NextResize]_vars

\* Two bindings, bare or with an event table and a group, whose theme varies
TeardownProps ==
    { Props(theme, NoEvents, NoGroup) : theme \in HookThemes }
    \cup { Props(theme, EventTable(1, <<EventEntry("click", "f1", "", "")>>), "gA") :
             theme \in HookThemes }

NextTeardown ==
    \/ \E h \in Hooks, element \in Elements, props \in TeardownProps :
            Mount(h, element, props)
    \/ \E h \in Hooks, props \in TeardownProps : Render(h, props)
    \/ \E h \in Hooks : Effect1Cleanup(h)
    \/ \E h \in Hooks : Effect1(h, {})
    \/ \E h \in Hooks : Effect2(h, {})
    \/ \E h \in Hooks : Effect3(h)
    \/ \E h \in Hooks : Effect4(h)
    \/ \E h \in Hooks : Effect5(h)
    \/ \E h \in Hooks : Unmount(h)

SpecTeardown == Init /\ [][NextTeardown]_vars

\* Two bindings whose event table varies, and once the theme: on one container
\* the handlers of both live on the instance the container caches
RebindProps ==
    { Props(NullTheme, onEvents, NoGroup) : onEvents \in EventTables }
    \cup { Props(StringTheme("dark"),
                 EventTable(1, <<EventEntry("click", "f1", "", "")>>), NoGroup) }

NextRebind ==
    \/ \E h \in Hooks, element \in Elements, props \in RebindProps :
            Mount(h, element, props)
    \/ \E h \in Hooks, props \in RebindProps : Render(h, props)
    \/ \E h \in Hooks : Effect1Cleanup(h)
    \/ \E h \in Hooks : Effect1(h, {})
    \/ \E h \in Hooks : Effect2(h, {})
    \/ \E h \in Hooks : Effect3(h)
    \/ \E h \in Hooks : Effect4(h)
    \/ \E h \in Hooks : Effect5(h)
    \/ \E h \in Hooks : Unmount(h)

SpecRebind == Init /\ [][NextRebind]_vars

\* A binding whose group varies, and once the theme, and on whose instance the
\* application calls updateGroup itself, beside a second binding on another
\* container
GroupPhaseProps ==
    { Props(NullTheme, NoEvents, group) : group \in GroupIds \cup {NoGroup} }
    \cup { Props(StringTheme("dark"), NoEvents, "gA") }

NextGroupPhase ==
    \/ \E props \in GroupPhaseProps : Mount("h1", "e1", props)
    \/ Mount("h2", "e2", Props(NullTheme, NoEvents, "gA"))
    \/ \E props \in GroupPhaseProps : Render("h1", props)
    \/ \E h \in Hooks : Effect1Cleanup(h)
    \/ \E h \in Hooks : Effect1(h, {})
    \/ \E h \in Hooks : Effect2(h, {})
    \/ \E h \in Hooks : Effect3(h)
    \/ \E h \in Hooks : Effect4(h)
    \/ \E h \in Hooks : Effect5(h)
    \/ \E h \in Hooks : Unmount(h)
    \/ \E oldGroupId, newGroupId \in GroupIds \cup {NoGroup} :
            /\ Settled
            /\ hook["h1"].mounted
            /\ getInstance("h1") # NoInstance
            /\ CallUpdateGroup(getInstance("h1"), oldGroupId, newGroupId)

SpecGroupPhase == Init /\ [][NextGroupPhase]_vars

\* One binding that may be left without an instance: the ref may be null, the
\* gate may be pending and echarts.init may throw; option, loading, events and
\* group change together, and the theme varies
GuardFailures == {"init"}
GuardProps ==
    { [Props(theme, NoEvents, NoGroup) EXCEPT !.lazyInit = lazyInit] :
        theme \in HookThemes, lazyInit \in {LazyAbsent, "true"} }
    \cup { [Props(theme, EventTable(1, <<EventEntry("click", "f1", "", "")>>), "gA")
               EXCEPT !.lazyInit = lazyInit, !.option = "o2",
                      !.showLoading = TRUE, !.loadingOption = "l1"] :
             theme \in HookThemes, lazyInit \in {LazyAbsent, "true"} }

NextGuard ==
    \/ \E element \in {NoElement, "e1"}, props \in GuardProps :
            Mount("h1", element, props)
    \/ \E props \in GuardProps : Render("h1", props)
    \/ \E isIntersecting \in BOOLEAN : Intersect("h1", isIntersecting)
    \/ LazyEffect("h1")
    \/ Effect1Cleanup("h1")
    \/ Effect1("h1", GuardFailures)
    \/ Effect2("h1", {})
    \/ Effect3("h1")
    \/ Effect4("h1")
    \/ Effect5("h1")
    \/ Unmount("h1")

SpecGuard == Init /\ [][NextGuard]_vars

\* One binding whose theme is absent, a built-in name, an unrecognized string or
\* a custom object (two of them with the same content), whose renderer and
\* initOpts change, on a null ref or a container, lazy or not
RecreateThemes ==
    { NullTheme, StringTheme("dark"), StringTheme("mytheme"),
      ObjectTheme(ThemeObject(1, <<Prop("color", "\"red\"")>>)),
      ObjectTheme(ThemeObject(2, <<Prop("color", "\"red\"")>>)),
      ObjectTheme(ThemeObject(3, <<Prop("color", "\"blue\"")>>)) }
RecreateProps ==
    { [Props(theme, NoEvents, NoGroup) EXCEPT !.lazyInit = lazyInit] :
        theme \in RecreateThemes, lazyInit \in {LazyAbsent, "true"} }
    \cup { [Props(NullTheme, NoEvents, NoGroup) EXCEPT !.renderer = "svg"],
           [Props(NullTheme, NoEvents, NoGroup) EXCEPT !.initOpts = "i1"] }

NextRecreate ==
    \/ \E element \in {NoElement, "e1"}, props \in RecreateProps :
            Mount("h1", element, props)
    \/ \E props \in RecreateProps : Render("h1", props)
    \/ \E isIntersecting \in BOOLEAN : Intersect("h1", isIntersecting)
    \/ LazyEffect("h1")
    \/ Effect1Cleanup("h1")
    \/ Effect1("h1", {})
    \/ Effect2("h1", {})
    \/ Effect3("h1")
    \/ Effect4("h1")
    \/ Effect5("h1")
    \/ Unmount("h1")

SpecRecreate == Init /\ [][NextRecreate]_vars

\* Two bindings, on one container or on two, that are re-created by a theme or
\* renderer change while their containers resize and the application calls
\* setOption and resize
InterleaveProps ==
    { [Props(theme, EventTable(1, <<EventEntry("click", "f1", "", "")>>), NoGroup)
          EXCEPT !.autoResize = "true", !.showLoading = TRUE] :
        theme \in HookThemes }
    \cup { [Props(NullTheme, NoEvents, NoGroup) EXCEPT !.renderer = "svg"] }

NextInterleave ==
    \/ \E h \in Hooks, element \in Elements, props \in InterleaveProps :
            Mount(h, element, props)
    \/ \E h \in Hooks, props \in InterleaveProps : Render(h, props)
    \/ \E h \in Hooks : Effect1Cleanup(h)
    \/ \E h \in Hooks : Effect1(h, {})
    \/ \E h \in Hooks : Effect2(h, {})
    \/ \E h \in Hooks : Effect3(h)
    \/ \E h \in Hooks : Effect4(h)
    \/ \E h \in Hooks : Effect5(h)
    \/ \E h \in Hooks : Effect6(h, {})
    \/ \E h \in Hooks : ResizeNotify(h)
    \/ \E h \in Hooks : ApiSetOption(h, "o2", "", {})
    \/ \E h \in Hooks : ApiResize(h)
    \/ \E h \in Hooks : Unmount(h)

SpecInterleave == Init /\ [][NextInterleave]_vars

\* A binding whose option, setOptionOpts, theme and lazy setting vary, and a
\* second binding with an option of its own that may hold the same container
OptionProps ==
    { [Props(theme, NoEvents, NoGroup) EXCEPT !.option = option,
                                              !.lazyInit = lazyInit] :
        theme \in HookThemes, option \in {"o1", "o2"},
        lazyInit \in {LazyAbsent, "true"} }
    \cup { [Props(NullTheme, NoEvents, NoGroup) EXCEPT !.option = option,
                                                      !.setOptionOpts = "notMerge"] :
             option \in {"o1", "o2"} }

NextOptions ==
    \/ \E props \in OptionProps : Mount("h1", "e1", props)
    \/ \E element \in Elements :
            Mount("h2", element, [Props(NullTheme, NoEvents, NoGroup)
                                    EXCEPT !.option = "o2"])
    \/ \E props \in OptionProps : Render("h1", props)
    \/ \E isIntersecting \in BOOLEAN : Intersect("h1", isIntersecting)
    \/ \E h \in Hooks : LazyEffect(h)
    \/ \E h \in Hooks : Effect1Cleanup(h)
    \/ \E h \in Hooks : Effect1(h, {})
    \/ \E h \in Hooks : Effect2(h, {})
    \/ \E h \in Hooks : Effect3(h)
    \/ \E h \in Hooks : Effect4(h)
    \/ \E h \in Hooks : Effect5(h)
    \/ \E h \in Hooks : Unmount(h)

SpecOptions == Init /\ [][NextOptions]_vars

\* ===================================================================== claims

\* C1: over setCachedInstance / releaseCachedInstance calls on a container, the
\* cached instance is disposed exactly once, by the release that takes the
\* reference count from 1 to 0 (which also removes the entry), and no dispose()
\* is called by any acquire or by a release that leaves the count above 0.
C1_RefcountDispose ==
    [][ lastOp'.op \in {"setCachedInstance", "releaseCachedInstance"} =>
          LET e == lastOp'.element IN
          IF lastOp'.op = "releaseCachedInstance"
             /\ getReferenceCount(instanceCache, e) = 1
          THEN /\ calls' = <<DisposeCall(instanceCache[e].instance)>>
               /\ disposeCount[instanceCache[e].instance] = 0
               /\ disposeCount'[instanceCache[e].instance] = 1
               /\ getReferenceCount(instanceCache', e) = 0
          ELSE /\ calls' = <<>>
               /\ disposeCount' = disposeCount
               /\ (lastOp'.op = "setCachedInstance" \/ e \in DOMAIN instanceCache)
                     => /\ getReferenceCount(instanceCache', e) > 0
                        /\ disposeCount[getCachedInstance(instanceCache', e)] = 0 ]_vars

C1_Witness ==
    /\ lastOp.op = "releaseCachedInstance"
    /\ lastOp.element \notin DOMAIN instanceCache
    /\ \E i \in Instances : calls = <<DisposeCall(i)>> /\ disposeCount[i] = 1
    /\ \E e \in DOMAIN instanceCache : instanceCache[e].refCount > 1

\* C3: setCachedInstance(container, x) on a cached container adds exactly 1 to
\* the reference count, keeps the cached instance and returns it (x is
\* ignored); on an uncached container it creates {instance: x, refCount: 1}
\* and returns x.  Other containers are untouched.
C3_SetCachedInstance ==
    [][ lastOp'.op = "setCachedInstance" =>
          LET e == lastOp'.element
              x == lastOp'.instance IN
          /\ IF e \in DOMAIN instanceCache
             THEN /\ instanceCache'[e] = CacheEntry(instanceCache[e].instance,
                                                    instanceCache[e].refCount + 1)
                  /\ lastOp'.result = instanceCache[e].instance
             ELSE /\ instanceCache'[e] = CacheEntry(x, 1)
                  /\ lastOp'.result = x
          /\ \A o \in Elements \ {e} :
                getCachedInstance(instanceCache', o) = getCachedInstance(instanceCache, o)
                /\ getReferenceCount(instanceCache', o) = getReferenceCount(instanceCache, o)
      ]_vars

C3_Witness ==
    /\ lastOp.op = "setCachedInstance"
    /\ lastOp.result # lastOp.instance
    /\ getReferenceCount(instanceCache, lastOp.element) = 2
    /\ getCachedInstance(instanceCache, lastOp.element) = lastOp.result

\* C4 (as claimed): replaceCachedInstance(container, new) calls dispose() exactly
\* once on the instance it replaces, installs new and keeps the reference
\* count; on an uncached container it creates an entry with count 1 and
\* disposes nothing.
C4_ReplaceDisposesOld ==
    [][ lastOp'.op = "replaceCachedInstance" =>
          LET e == lastOp'.element
              x == lastOp'.instance IN
          IF e \in DOMAIN instanceCache
          THEN /\ calls' = <<DisposeCall(instanceCache[e].instance)>>
               /\ instanceCache'[e] = CacheEntry(x, instanceCache[e].refCount)
          ELSE /\ calls' = <<>>
               /\ instanceCache'[e] = CacheEntry(x, 1) ]_vars

\* C5 (as claimed): clearInstanceCache() calls dispose() on every instance that
\* is cached when it is called and leaves the cache empty.
C5_ClearDisposesAll ==
    [][ lastOp'.op = "clearInstanceCache" =>
          /\ \A e \in DOMAIN instanceCache :
                CountCalls(calls', "dispose", instanceCache[e].instance) = 1
          /\ \A e \in Elements :
                /\ getCachedInstance(instanceCache', e) = NoInstance
                /\ getReferenceCount(instanceCache', e) = 0 ]_vars

\* C6: every cache entry has a reference count of at least 1 and holds one
\* instance; getReferenceCount is 0 exactly for the containers without an
\* entry; releaseCachedInstance on a container without an entry changes
\* nothing and calls no dispose().
C6_EntryInv ==
    \A e \in Elements :
        /\ e \in DOMAIN instanceCache =>
              instanceCache[e].refCount >= 1 /\ instanceCache[e].instance \in Instances
        /\ getReferenceCount(instanceCache, e) = 0 <=> e \notin DOMAIN instanceCache

C6_CacheInvariant ==
    [][ /\ C6_EntryInv
        /\ C6_EntryInv'
        /\ (lastOp'.op = "releaseCachedInstance" /\ lastOp'.element \notin DOMAIN instanceCache)
              => /\ calls' = <<>>
                 /\ instanceCache' = instanceCache
                 /\ disposeCount' = disposeCount ]_vars

C6_Witness ==
    /\ lastOp.op = "releaseCachedInstance"
    /\ calls = <<>>
    /\ lastOp.element \notin DOMAIN instanceCache
    /\ \E e \in DOMAIN instanceCache : instanceCache[e].refCount = 1

\* C7 (as claimed): two theme objects that are different references with the
\* same serialized content get the same theme name, and registerTheme has been
\* called exactly once for that content.
RegisteredFor(content) ==
    { k \in DOMAIN registerThemeCalls :
        \E t \in ThemeObjects : t.ref = registerThemeCalls[k].ref
                                /\ JSONstringify(t) = content }

C7_ContentDedup ==
    \A A, B \in ThemeObjects :
        (/\ A.ref # B.ref
         /\ JSONstringify(A) = JSONstringify(B)
         /\ A.ref \in DOMAIN customThemeCache
         /\ B.ref \in DOMAIN customThemeCache)
        => /\ customThemeCache[A.ref] = customThemeCache[B.ref]
           /\ Cardinality(RegisteredFor(JSONstringify(A))) = 1

\* C8: for every group id, the engine's last call for it was connect exactly
\* when the registry holds at least 2 members for it.
C8_ConnectedIffTwo ==
    \A g \in GroupIds :
        connectState[g] = "connected" <=> Cardinality(members(groupRegistry, g)) >= 2

C8_Witness ==
    /\ lastOp.op = "removeFromGroup"
    /\ \E g \in GroupIds : /\ connectState[g] = "disconnected"
                           /\ Cardinality(members(groupRegistry, g)) = 1
    /\ \E g \in GroupIds : /\ connectState[g] = "connected"
                           /\ Cardinality(members(groupRegistry, g)) >= 2

\* C9 (as claimed): an instance is a member of at most one group's set.
C9_ExclusiveMembership ==
    \A i \in Instances : Cardinality(groupsOf(groupRegistry, i)) <= 1

\* C2 (as claimed): every instance echarts.init has returned for a container
\* has been disposed once no binding is mounted on that container any more.
C2_NoInstanceDropped ==
    \A i \in Instances :
        (/\ instDom[i] # NoElement
         /\ Settled
         /\ \A h \in Hooks : ~(hook[h].mounted /\ hook[h].element = instDom[i]))
        => disposeCount[i] >= 1

\* C10 (as claimed): after a run of Effect 4 on an existing instance the
\* handlers bound on the instance are exactly those of the new onEvents table,
\* and every off call of the run precedes every on call.
C10_BoundEqualsNewTable ==
    [][ (lastOp'.op = "effect4" /\ getInstance(lastOp'.hook) # NoInstance) =>
          /\ handlers'[getInstance(lastOp'.hook)]
                = tableHandlers(hook[lastOp'.hook].props.onEvents)
          /\ \A j, k \in DOMAIN calls' :
                (calls'[j].op = "off" /\ calls'[k].op = "on") => j < k ]_vars

\* C10 (amended): a run of Effect 4 that finds an instance and a changed table
\* calls off for every entry of the previously bound table and then on for
\* every entry of the new table, all offs before all ons, so the instance ends
\* with its earlier handlers minus the old table's plus the new table's: exactly
\* the new table's when it carried only this binding's table before.  Any other
\* run of Effect 4 makes no call.
C10_RebindDelta ==
    [][ lastOp'.op = "effect4" =>
          LET h == lastOp'.hook
              i == getInstance(h)
              old == hook[h].boundEventsRef
              new == hook[h].props.onEvents IN
          IF i # NoInstance /\ old # new
          THEN /\ calls' = unbindEvents(i, old) \o bindEvents(i, new)
               /\ \A j, k \in DOMAIN calls' :
                     (calls'[j].op = "off" /\ calls'[k].op = "on") => j < k
               /\ handlers'[i] = (handlers[i] \ tableHandlers(old))
                                    \cup tableHandlers(new)
               /\ handlers[i] = tableHandlers(old)
                     => handlers'[i] = tableHandlers(new)
               /\ \A j \in Instances \ {i} : handlers'[j] = handlers[j]
               /\ hook'[h].boundEventsRef = new
          ELSE /\ calls' = <<>>
               /\ handlers' = handlers
               /\ hook'[h].boundEventsRef = hook[h].boundEventsRef ]_vars

C10_Witness ==
    /\ lastOp.op = "effect4"
    /\ Len(calls) >= 2
    /\ calls[1].op = "off"
    /\ calls[Len(calls)].op = "on"
    /\ hook[lastOp.hook].boundEventsRef = hook[lastOp.hook].props.onEvents
    /\ handlers[lastOp.instance] = tableHandlers(hook[lastOp.hook].props.onEvents)

\* C11: the init effect makes exactly one setOption call and records the pair
\* it applied; a run of Effect 2 that finds an instance and a current
\* (option, setOptionOpts) pair identical to the recorded one makes no call and
\* leaves the record as it is.
C11_NoDuplicateApply ==
    [][ /\ (lastOp'.op = "effect1" /\ lastOp'.instance # NoInstance) =>
              /\ CountCalls(calls', "setOption", lastOp'.instance) = 1
              /\ hook'[lastOp'.hook].lastAppliedRef =
                    Applied(hook[lastOp'.hook].props.option,
                            hook[lastOp'.hook].props.setOptionOpts)
        /\ (/\ lastOp'.op = "effect2"
            /\ getInstance(lastOp'.hook) # NoInstance
            /\ hook[lastOp'.hook].lastAppliedRef =
                    Applied(hook[lastOp'.hook].props.option,
                            hook[lastOp'.hook].props.setOptionOpts)) =>
              /\ calls' = <<>>
              /\ hook'[lastOp'.hook].lastAppliedRef = hook[lastOp'.hook].lastAppliedRef
      ]_vars

C11_Witness ==
    /\ lastOp.op = "effect2"
    /\ lastOp.instance # NoInstance
    /\ calls = <<>>
    /\ hook[lastOp.hook].props.option = "o2"
    /\ hook[lastOp.hook].lastAppliedRef = Applied("o2", "")
    /\ commits >= 2

\* C12: with one binding and no engine failure, every setup of the lifecycle
\* effect calls init once and gets a new instance, every teardown calls
\* dispose() once, on that instance; so at most one created instance is live,
\* exactly when a teardown is registered, no instance is disposed twice, and
\* after the final teardown the cache is empty and getInstance() is absent.
C12_SetupTeardownPairs ==
    [][ /\ lastOp'.op = "effect1" =>
              /\ CountCalls(calls', "init", lastOp'.instance) = 1
              /\ Len(SelectSeq(calls', LAMBDA c : c.op = "init")) = 1
              /\ instDom[lastOp'.instance] = NoElement
              /\ getCachedInstance(instanceCache', lastOp'.element) = lastOp'.instance
        /\ (lastOp'.op \in {"cleanup1", "unmount"} /\ hook[lastOp'.hook].cleanup1) =>
              /\ lastOp'.instance # NoInstance
              /\ disposeCount[lastOp'.instance] = 0
              /\ disposeCount'[lastOp'.instance] = 1
              /\ Len(SelectSeq(calls', LAMBDA c : c.op = "dispose")) = 1
              /\ instanceCache' = <<>>
        /\ lastOp'.op = "unmount" =>
              /\ instanceCache' = <<>>
              /\ hook'[lastOp'.hook].element = NoElement
        /\ \A i \in Instances : disposeCount'[i] <= 1
        /\ Cardinality({i \in Instances : instDom'[i] # NoElement /\ disposeCount'[i] = 0})
              = (IF hook'["h1"].cleanup1 THEN 1 ELSE 0)
      ]_vars

C12_Witness ==
    /\ lastOp.op = "unmount"
    /\ calls # <<>>
    /\ calls[Len(calls)].op = "dispose"
    /\ Cardinality({i \in Instances : disposeCount[i] = 1}) >= 2
    /\ instanceCache = <<>>

\* C13: a binding with a registered teardown whose theme changes from one
\* built-in theme to another runs the teardown and then the setup of Effect 1;
\* the teardown disposes the cached instance, once; the setup calls init with
\* the new theme name and gets a new instance, and afterwards the cache holds
\* that instance alone while every earlier instance of the container is
\* disposed, exactly once.
BuiltinSwap(old, new) ==
    /\ old.kind = "string" /\ isBuiltinTheme(old.name)
    /\ new.kind = "string" /\ isBuiltinTheme(new.name)
    /\ old.name # new.name

C13_ThemeSwapRecreates ==
    [][ /\ (/\ lastOp'.op = "render"
            /\ hook[lastOp'.hook].cleanup1
            /\ BuiltinSwap(hook[lastOp'.hook].props.theme,
                           hook'[lastOp'.hook].props.theme)) =>
              /\ Len(hook'[lastOp'.hook].pending) >= 2
              /\ SubSeq(hook'[lastOp'.hook].pending, 1, 2) = <<"cleanup1", "effect1">>
        /\ lastOp'.op = "cleanup1" =>
              /\ lastOp'.instance = getInstance(lastOp'.hook)
              /\ lastOp'.instance # NoInstance
              /\ CountCalls(calls', "dispose", lastOp'.instance) = 1
              /\ disposeCount'[lastOp'.instance] = 1
              /\ instanceCache' = <<>>
        /\ (lastOp'.op = "effect1"
            /\ hook[lastOp'.hook].props.theme.kind = "string") =>
              /\ Head(calls') = Call("init", lastOp'.instance, lastOp'.element,
                                     hook[lastOp'.hook].props.theme.name)
              /\ instDom[lastOp'.instance] = NoElement
              /\ instTheme'[lastOp'.instance] = hook[lastOp'.hook].props.theme.name
              /\ DOMAIN instanceCache' = {lastOp'.element}
              /\ instanceCache'[lastOp'.element] = CacheEntry(lastOp'.instance, 1)
              /\ \A i \in Instances \ {lastOp'.instance} :
                    instDom'[i] # NoElement => disposeCount'[i] = 1
      ]_vars

C13_Witness ==
    /\ lastOp.op = "effect1"
    /\ instTheme[1] = "light" /\ instDom[1] = "e1" /\ disposeCount[1] = 1
    /\ instTheme[2] = "dark" /\ instDom[2] = "e1" /\ disposeCount[2] = 0
    /\ calls[1] = Call("init", 2, "e1", "dark")
    /\ instanceCache = [x \in {"e1"} |-> CacheEntry(2, 1)]
    /\ commits = 2

\* C14: in lazy mode no init call is made while the gate is closed; the gate
\* opens only on an intersecting entry, and that step disconnects the observer
\* and schedules Effect 1 once, which then makes one init call; observe is
\* called only while the gate is closed, and a binding whose gate is open has no
\* observing observer.
HasCall(s, op) == \E k \in DOMAIN s : s[k].op = op

C14_LazyGate ==
    [][ /\ HasCall(calls', "init") =>
              /\ lastOp'.op = "effect1"
              /\ hook[lastOp'.hook].shouldInit
              /\ Len(SelectSeq(calls', LAMBDA c : c.op = "init")) = 1
        /\ HasCall(calls', "observe") =>
              /\ lastOp'.op = "lazy"
              /\ ~hook[lastOp'.hook].shouldInit
              /\ ~hook'[lastOp'.hook].shouldInit
        /\ \A h \in Hooks :
              /\ (hook[h].mounted /\ hook'[h].mounted
                  /\ ~hook[h].shouldInit /\ hook'[h].shouldInit) =>
                    /\ lastOp' = HookOp("intersect", h, hook[h].element, NoInstance, 1)
                    /\ calls' = <<Call("disconnect", NoInstance, hook[h].element, "")>>
                    /\ hook'[h].observer = "disconnected"
                    /\ hook'[h].pending = <<"effect1", "lazy">>
              /\ (hook'[h].mounted /\ hook'[h].shouldInit) =>
                    hook'[h].observer # "observing"
              /\ (lastOp'.op = "effect1" /\ lastOp'.hook = h
                  /\ LazyProps(hook[h].props)) =>
                    HasCall(calls', "init") = hook[h].shouldInit
      ]_vars

C14_Witness ==
    /\ lastOp.op = "effect1"
    /\ hook["h1"].props.lazyInit = "true"
    /\ hook["h1"].observer = "disconnected"
    /\ HasCall(calls, "init")
    /\ Cardinality({i \in Instances : instDom[i] # NoElement}) = 1
    /\ commits = 2

\* C15: a binding is mounted with its gate open exactly when its lazyInit
\* option is false or left out, and a gate that is open stays open for as long
\* as the binding is mounted, whatever entry arrives and whatever the lazyInit
\* option becomes.
C15_GateOneWay ==
    [][ \A h \in Hooks :
          /\ (lastOp'.op = "mount" /\ lastOp'.hook = h) =>
                (hook'[h].shouldInit
                    <=> hook'[h].props.lazyInit \in {LazyAbsent, "false"})
          /\ (hook[h].mounted /\ hook'[h].mounted /\ hook[h].shouldInit) =>
                hook'[h].shouldInit
      ]_vars

C15_Witness ==
    /\ lastOp.op = "render"
    /\ hook["h1"].shouldInit
    /\ hook["h1"].observer = "disconnected"
    /\ hook["h1"].props.lazyInit = "object"
    /\ hook["h1"].pending = <<>>

\* C16 (as stated): when init throws in Effect 1 the error goes to onError if
\* configured and to console.error otherwise, nothing is thrown, the cache is
\* left alone, no cleanup is registered, the binding has no instance, and the
\* effects 2 to 5 of a binding whose Effect 1 failed make no engine call.
EffectOps == {"effect2", "effect3", "effect4", "effect5"}

InitFailedStep(h) ==
    /\ lastOp'.op = "effect1" /\ lastOp'.hook = h
    /\ HasCall(calls', "raise")
    /\ lastOp'.instance = InitThrows

InitFailureRouted(h) ==
    /\ Len(calls') = 3
    /\ calls'[1].op = "init"
    /\ calls'[2] = Raise("init")
    /\ calls'[3].op = (IF hook[h].props.onError THEN "onError" ELSE "console.error")
    /\ instanceCache' = instanceCache
    /\ ~hook'[h].cleanup1
    /\ ~hook'[h].thrown

OtherHolder(h) ==
    \E g \in Hooks \ {h} :
        /\ hook[g].mounted
        /\ hook[g].element = hook[h].element
        /\ hook[g].cleanup1

MountPassEffect2(h) ==
    /\ hook[h].mounted
    /\ hook[h].pending = <<"effect2", "effect3", "effect4", "effect5">>

C18_MountPassNeverThrows ==
    [][ \A h \in Hooks :
          /\ (lastOp'.op = "effect1" /\ lastOp'.hook = h /\ ~hook[h].props.onError) =>
                (~HasCall(calls', "throw") /\ ~hook'[h].thrown)
          /\ (lastOp'.op = "effect2" /\ lastOp'.hook = h /\ MountPassEffect2(h)
              /\ ~hook[h].props.onError) =>
                (~HasCall(calls', "throw") /\ ~hook'[h].thrown)
      ]_vars

\* C19: when setOption throws in Effect 2 or in the setOption of the public
\* API, the only thing that follows is one onError call if onError is
\* configured, and the rethrow otherwise; Effect 2 then ends the pass of the
\* binding exactly when it rethrows, and leaves lastAppliedRef alone.
C19_UpdateFailurePolicy ==
    [][ \A h \in Hooks :
          (/\ lastOp'.op \in {"effect2", "apiSetOption"} /\ lastOp'.hook = h
           /\ HasCall(calls', "raise")) =>
             /\ Len(calls') = 3
             /\ calls'[1].op = "setOption"
             /\ calls'[2] = Raise("setOption")
             /\ calls'[3].op = (IF hook[h].props.onError THEN "onError" ELSE "throw")
             /\ hook'[h].lastAppliedRef = hook[h].lastAppliedRef
             /\ (lastOp'.op = "effect2") =>
                    (hook'[h].thrown <=> ~hook[h].props.onError)
             /\ (lastOp'.op = "apiSetOption") => hook'[h] = hook[h]
      ]_vars

C19_Witness ==
    /\ lastOp.op = "effect2"
    /\ hook["h1"].lastAppliedRef = Applied("o1", "")
    /\ hook["h1"].props.option = "o2"
    /\ calls = <<Call("setOption", lastOp.instance, "o2", ""), Raise("setOption"),
                 Call("throw", NoInstance, "", "")>>
    /\ hook["h1"].thrown

\* C20: with onError configured, every exception the engine raises in a step
\* of the binding is followed at once by one onError call, there are as many
\* onError calls as exceptions, and nothing is rethrown or logged.
C20_OnErrorSoleSink ==
    [][ \A h \in Hooks :
          (lastOp'.hook = h /\ hook[h].mounted /\ hook[h].props.onError) =>
             /\ ~HasCall(calls', "throw")
             /\ ~HasCall(calls', "console.error")
             /\ ~hook'[h].thrown
             /\ Len(SelectSeq(calls', LAMBDA c : c.op = "raise"))
                    = Len(SelectSeq(calls', LAMBDA c : c.op = "onError"))
             /\ \A k \in DOMAIN calls' :
                    calls'[k].op = "raise" =>
                        (k < Len(calls') /\ calls'[k + 1].op = "onError")
      ]_vars

C20_Witness ==
    /\ lastOp.op = "apiSetOption"
    /\ hook["h1"].props.onError
    /\ calls = <<Call("setOption", lastOp.instance, "o2", "{notMerge:true}"),
                 Raise("setOption"), Call("onError", NoInstance, "", "")>>

\* C21: setOption, getInstance and resize of the public API leave the cache,
\* the engine's instances and the binding as they are and never call init;
\* without a cached instance for the container setOption and resize make no
\* engine call and getInstance returns nothing; with one, getInstance returns
\* it, resize calls resize on it once, and setOption makes one setOption call
\* on it whose options are the default update options overlaid with the
\* override: every key of either, the override's value where both have the key.
ApiOps == {"apiSetOption", "apiGetInstance", "apiResize"}

MergedValue(merged, base, opts, key) ==
    IF \E k \in DOMAIN opts : opts[k].key = key
    THEN \E k \in DOMAIN opts, m \in DOMAIN merged :
            opts[k].key = key /\ merged[m] = opts[k]
    ELSE \E k \in DOMAIN base, m \in DOMAIN merged :
            base[k].key = key /\ merged[m] = base[k]

OverrideWins(merged, base, opts) ==
    /\ {merged[m].key : m \in DOMAIN merged}
            = {base[k].key : k \in DOMAIN base} \cup {opts[k].key : k \in DOMAIN opts}
    /\ \A m, n \in DOMAIN merged : merged[m].key = merged[n].key => m = n
    /\ \A m \in DOMAIN merged : MergedValue(merged, base, opts, merged[m].key)

\* the option objects with at most the keys notMerge and lazyUpdate
MergedObjects ==
    LET Values == {"true", "false"}
        One == {<<OptsProp(key, value)>> :
                    key \in {"notMerge", "lazyUpdate"}, value \in Values}
        Two == {<<OptsProp(first, v), OptsProp(second, w)>> :
                    first \in {"notMerge", "lazyUpdate"},
                    second \in {"notMerge", "lazyUpdate"}, v \in Values, w \in Values}
    IN  {<<>>} \cup One \cup {o \in Two : o[1].key # o[2].key}

C21_ApiFrame ==
    [][ \A h \in Hooks :
          (lastOp'.op \in ApiOps /\ lastOp'.hook = h) =>
            LET instance == getInstance(h) IN
            /\ instanceCache' = instanceCache
            /\ instDom' = instDom /\ disposeCount' = disposeCount
            /\ hook' = hook
            /\ ~HasCall(calls', "init")
            /\ instance = NoInstance => calls' = <<>>
            /\ lastOp'.op = "apiGetInstance" =>
                    (calls' = <<>> /\ lastOp'.result = instance)
            /\ (lastOp'.op = "apiResize" /\ instance # NoInstance) =>
                    calls' = <<Call("resize", instance, "", "")>>
            /\ (lastOp'.op = "apiSetOption" /\ instance # NoInstance) =>
                    /\ Len(calls') = 1
                    /\ calls'[1].op = "setOption" /\ calls'[1].inst = instance
                    /\ calls'[1].a = "o2"
                    /\ \E merged \in MergedObjects :
                            /\ calls'[1].b = stringifyOpts(merged)
                            /\ OverrideWins(merged,
                                    OptsObject(hook[h].props.setOptionOpts),
                                    OptsObject(OverrideOpts[lastOp'.result]))
      ]_vars

C21_Witness ==
    /\ lastOp.op = "apiSetOption"
    /\ hook["h1"].props.setOptionOpts = "notMerge"
    /\ calls = <<Call("setOption", lastOp.instance, "o2", "{notMerge:false}")>>
    /\ getReferenceCount(instanceCache, hook["h1"].element) = 1

\* the groups an instance is a member of, and the groups a binding asks for
groupIdsOf(reg, instance) == {reg[k].id : k \in groupsOf(reg, instance)}
ConfiguredGroups(props) == IF props.group = NoGroup THEN {} ELSE {props.group}
SoleHolder(h) ==
    \A g \in Hooks \ {h} : ~(hook[g].mounted /\ hook[g].element = hook[h].element)
HasStage(h, stages) ==
    \E k \in DOMAIN hook[h].pending : hook[h].pending[k] \in stages

\* the binding has an instance, no lifecycle or group effect left to run, and the
\* instance is a member of exactly the configured group
GroupSynced(h) ==
    (/\ hook[h].mounted
     /\ getInstance(h) # NoInstance
     /\ ~HasStage(h, {"cleanup1", "effect1", "effect5"}))
    => groupIdsOf(groupRegistry, getInstance(h)) = ConfiguredGroups(hook[h].props)

DisposedInNoGroup ==
    \A i \in Instances : disposeCount[i] > 0 => groupIdsOf(groupRegistry, i) = {}

ContainerClean(element) ==
    \A i \in Instances :
        instDom[i] = element =>
            IF i = getCachedInstance(instanceCache, element)
            THEN Cardinality(groupIdsOf(groupRegistry, i)) <= 1
            ELSE disposeCount[i] > 0 /\ groupIdsOf(groupRegistry, i) = {}

ConfiguredLoading(props) ==
    IF props.showLoading THEN LoadingState(TRUE, props.loadingOption)
    ELSE LoadingHidden

\* the binding has an instance, no lifecycle or loading effect left to run, and
\* the instance's loading display is the configured one
LoadingSynced(h) ==
    (/\ hook[h].mounted
     /\ getInstance(h) # NoInstance
     /\ ~HasStage(h, {"cleanup1", "effect1", "effect3"}))
    => loading[getInstance(h)] = ConfiguredLoading(hook[h].props)

EntryFunction(entry) == IF entry.fn # "" THEN entry.fn ELSE entry.handler

\* C24 as stated: an initialization binds every entry of the table, shorthand or
\* full, with instance.on(eventName, fn) for the function the entry names, and
\* a teardown unbinds every bound entry with instance.off(eventName, fn).
C24_ShorthandBound ==
    [][ LET h == lastOp'.hook
            inst == lastOp'.instance
        IN
        /\ (lastOp'.op = "effect1" /\ inst # NoInstance) =>
              \A k \in DOMAIN hook[h].props.onEvents.entries :
                 LET entry == hook[h].props.onEvents.entries[k] IN
                 \E c \in DOMAIN calls' :
                    calls'[c] = Call("on", inst, entry.event, EntryFunction(entry))
        /\ (lastOp'.op \in {"cleanup1", "unmount"} /\ inst # NoInstance
                /\ hook[h].cleanup1) =>
              \A k \in DOMAIN hook[h].boundEventsRef.entries :
                 LET entry == hook[h].boundEventsRef.entries[k] IN
                 \E c \in DOMAIN calls' :
                    calls'[c] = Call("off", inst, entry.event, EntryFunction(entry)) ]_vars

\* C25 as stated: the instance's own group property mirrors the registry: after
\* addToGroup(instance, g) it is g, after removeFromGroup(instance, g) or
\* updateGroup(instance, g, undefined) it is undefined, after
\* updateGroup(instance, old, new) it is new, and the group property of every
\* other instance is unchanged.
C25_GroupPropertyMirrors ==
    [][ lastOp'.op \in {"addToGroup", "removeFromGroup", "updateGroup"} =>
          LET i == lastOp'.instance IN
          /\ groupProp'[i] = getInstanceGroup(groupRegistry', i)
          /\ lastOp'.op = "addToGroup" => groupProp'[i] = lastOp'.element
          /\ lastOp'.op = "removeFromGroup" => groupProp'[i] = NoGroup
          /\ \A j \in Instances \ {i} : groupProp'[j] = groupProp[j] ]_vars

\* C26: each resize notification makes one resize() call, on the instance cached
\* for the container at the time of the notification, which is a live instance
\* of that container, or no engine call when none is cached, and changes
\* nothing else; a binding without autoResize has no subscription once its
\* effects have run; a teardown, and a re-run of Effect 6, disconnects the
\* subscription it finds.
C26_ResizeCurrentInstance ==
    [][ LET h == lastOp'.hook
            element == lastOp'.element
            cached == getCachedInstance(instanceCache, element)
        IN
        /\ lastOp'.op = "resizeNotify" =>
              /\ calls' = IF cached = NoInstance THEN <<>>
                          ELSE <<Call("resize", cached, "", "")>>
              /\ \A c \in DOMAIN calls' :
                    /\ disposeCount[calls'[c].inst] = 0
                    /\ instDom[calls'[c].inst] = element
              /\ UNCHANGED <<cacheVars, groupVars, engineVars, hookVars>>
        /\ \A g \in Hooks :
              (Settled' /\ hook'[g].mounted /\ ~AutoResizeProps(hook'[g].props))
              => hook'[g].resizeObserver # "observing"
        /\ (lastOp'.op = "effect6" /\ ~AutoResizeProps(hook[h].props)) =>
              ~HasCall(calls', "observeResize")
        /\ (lastOp'.op \in {"unmount", "effect6"}
                /\ hook[h].resizeObserver = "observing") =>
              /\ Cardinality({c \in DOMAIN calls' :
                    calls'[c] = Call("disconnectResize", NoInstance, element, "")}) = 1
              /\ lastOp'.op = "unmount" => calls'[Len(calls')].op = "disconnectResize"
        /\ (lastOp'.op \in {"unmount", "effect6"}
                /\ hook[h].resizeObserver # "observing") =>
              ~HasCall(calls', "disconnectResize") ]_vars

\* a notification after a theme re-creation: the second instance of the
\* container is resized, the disposed first one is not
C26_Witness ==
    /\ lastOp.op = "resizeNotify"
    /\ calls = <<Call("resize", 2, "", "")>>
    /\ instDom[1] = lastOp.element /\ disposeCount[1] = 1
    /\ instDom[2] = lastOp.element /\ disposeCount[2] = 0
    /\ hook["h1"].resizeObserver = "observing"

\* C27: when constructing the ResizeObserver throws, Effect 6 logs one warning
\* and nothing else: onError is not called, nothing is thrown to the host, no
\* subscription exists, and the cache, the engine's instances and the groups
\* are as the earlier effects of the pass left them (the instance initialised,
\* its events bound, its group joined); the later teardown of the binding
\* leaves the group, unbinds the events and disposes the instance, with no
\* subscription to disconnect.
C27_ObserverFailureWarns ==
    [][ LET h == lastOp'.hook
            inst == getInstance(h)
            props == hook[h].props
        IN
        /\ (lastOp'.op = "effect6" /\ lastOp'.result = 1) =>
              /\ calls' = Effect6CleanupCalls(hook[h])
                          \o <<Raise("ResizeObserver"),
                               Call("console.warn", NoInstance, "", "")>>
              /\ ~hook'[h].thrown
              /\ hook'[h].resizeObserver # "observing"
              /\ hook'[h].pending = Tail(hook[h].pending)
              /\ UNCHANGED <<cacheVars, groupVars, engineVars>>
              /\ (hook[h].cleanup1 /\ hook[h].shouldInit) =>
                    /\ inst # NoInstance
                    /\ disposeCount[inst] = 0
                    /\ tableHandlers(props.onEvents) \subseteq handlers[inst]
                    /\ groupIdsOf(groupRegistry, inst) = ConfiguredGroups(props)
        /\ (lastOp'.op = "unmount" /\ hook[h].cleanup1 /\ inst # NoInstance
                /\ hook[h].resizeObserver = "none") =>
              /\ ~HasCall(calls', "disconnectResize")
              /\ ~HasCall(calls', "raise")
              /\ calls'[Len(calls')] = DisposeCall(inst)
              /\ \A c \in 1..(Len(calls') - 1) :
                    calls'[c].op \in {"disconnect", "connect", "off"}
              /\ handlers'[inst] = {}
              /\ groupIdsOf(groupRegistry', inst) = {}
              /\ getCachedInstance(instanceCache', lastOp'.element) = NoInstance ]_vars

\* the constructor threw in the mount pass of a binding that has an onError
\* callback: the instance is cached and a warning is the only call
C27_Witness ==
    /\ lastOp.op = "effect6" /\ lastOp.result = 1
    /\ hook["h1"].props.onError
    /\ hook["h1"].cleanup1
    /\ getInstance("h1") # NoInstance
    /\ calls = <<Raise("ResizeObserver"), Call("console.warn", NoInstance, "", "")>>
    /\ hook["h1"].resizeObserver = "none"

\* the registerTheme calls made so far for a theme name
RegistrationsOf(themeName) ==
    {k \in DOMAIN registerThemeCalls : registerThemeCalls[k].name = themeName}

\* Effect 1 calls ensureBuiltinThemesRegistered before echarts.init: when init
\* is called every built-in theme has been registered
BuiltinsRegisteredAtInit ==
    HasCall(calls, "init") =>
        \A themeName \in BuiltinThemes : RegistrationsOf(themeName) # {}

\* C28 as stated: the built-in themes are registered lazily, not when the module
\* loads (no registerTheme call has been made before the first operation), and
\* ensureBuiltinThemesRegistered is idempotent: after any number of calls each
\* built-in theme has been registered exactly once, and never more than once.
C28_LazyBuiltinRegistration ==
    /\ lastOp.op = "load" => registerThemeCalls = <<>>
    /\ \A themeName \in BuiltinThemes :
          /\ Cardinality(RegistrationsOf(themeName)) <= 1
          /\ lastOp.op = "ensureBuiltinThemesRegistered" =>
                Cardinality(RegistrationsOf(themeName)) = 1

\* the calls that address an instance, and the group calls
InstanceCallOps == {"setOption", "showLoading", "hideLoading", "on", "off", "resize"}
IsGroupCall(call) == call.op \in {"connect", "disconnect"} /\ call.a \in GroupIds

\* C29: a dispose() call is made by a teardown of the lifecycle effect only, and
\* within the teardown it comes after the calls that leave the group the
\* instance is reported in and after the off call of every bound entry; no
\* group call and no call on the instance follows it, in the same step or in
\* any later one, and the group membership of a disposed instance is never
\* edited.
C29_DisposeLast ==
    [][ /\ \A k \in DOMAIN calls' :
              calls'[k].op = "dispose" =>
                 LET h == lastOp'.hook
                     inst == calls'[k].inst
                     instGroup == getInstanceGroup(groupRegistry, inst)
                     bound == hook[h].boundEventsRef.entries
                 IN
                 /\ lastOp'.op \in {"cleanup1", "unmount"}
                 /\ inst = lastOp'.instance
                 /\ \A j \in (k + 1)..Len(calls') :
                       /\ ~IsGroupCall(calls'[j])
                       /\ calls'[j].inst # inst
                 /\ \A e \in DOMAIN bound :
                       \E j \in 1..(k - 1) :
                          calls'[j] = Call("off", inst, bound[e].event, bound[e].handler)
                 /\ instGroup # NoGroup =>
                       /\ \E j \in 1..(k - 1) :
                             IsGroupCall(calls'[j]) /\ calls'[j].a = instGroup
                       /\ inst \notin members(groupRegistry', instGroup)
        /\ \A k \in DOMAIN calls' :
              calls'[k].op \in InstanceCallOps => disposeCount[calls'[k].inst] = 0
        /\ \A i \in Instances, g \in GroupIds :
              disposeCount[i] > 0 =>
                 (i \in members(groupRegistry', g)) = (i \in members(groupRegistry, g))
      ]_vars

\* a teardown of a grouped binding with a bound event table: leave, off, dispose
C29_Witness ==
    /\ lastOp.op = "unmount"
    /\ Len(calls) = 3
    /\ IsGroupCall(calls[1])
    /\ calls[2].op = "off"
    /\ calls[3] = DisposeCall(lastOp.instance)
    /\ disposeCount[lastOp.instance] = 1

\* C30: addToGroup calls connect(g) exactly when the group then has more than
\* one member and makes no engine call otherwise; removeFromGroup on a known
\* group makes exactly one engine call, disconnect(g) when 0 or 1 members
\* remain (the entry is deleted when 0 remain, so no group of the registry is
\* empty) and connect(g) when 2 or more remain; on an unknown group it makes no
\* engine call and changes nothing.
C30_GroupCallCounts ==
    [][ LET g == lastOp'.element
            i == lastOp'.instance
            remaining == Cardinality(members(groupRegistry, g) \ {i})
        IN
        /\ lastOp'.op = "addToGroup" =>
              /\ i \in members(groupRegistry', g)
              /\ calls' = IF Cardinality(members(groupRegistry', g)) > 1
                          THEN <<ConnectCall(g)>> ELSE <<>>
        /\ (lastOp'.op = "removeFromGroup" /\ hasGroup(groupRegistry, g)) =>
              /\ Len(calls') = 1
              /\ calls' = IF remaining <= 1 THEN <<DisconnectCall(g)>>
                          ELSE <<ConnectCall(g)>>
              /\ members(groupRegistry', g) = members(groupRegistry, g) \ {i}
              /\ remaining = 0 <=> ~hasGroup(groupRegistry', g)
        /\ (lastOp'.op = "removeFromGroup" /\ ~hasGroup(groupRegistry, g)) =>
              /\ calls' = <<>>
              /\ groupRegistry' = groupRegistry
              /\ connectState' = connectState
        /\ lastOp'.op \in {"addToGroup", "removeFromGroup"} =>
              \A k \in DOMAIN groupRegistry' : groupRegistry'[k].instances # {}
      ]_vars

\* a removal that leaves two members: connect is called again
C30_Witness ==
    /\ lastOp.op = "removeFromGroup"
    /\ calls = <<ConnectCall(lastOp.element)>>
    /\ Cardinality(members(groupRegistry, lastOp.element)) = 2
    /\ lastOp.instance \notin members(groupRegistry, lastOp.element)

\* the effect of updateGroup(i, old, new) as a step shows it: the calls about
\* the old group come first, the instance has left the old group unless it is
\* the new one, it is a member of the new one, and no other group is touched
UpdateGroupStep(i, old, new) ==
    /\ \A j, k \in DOMAIN calls' :
          (old # new /\ calls'[j].a = old /\ calls'[k].a = new) => j < k
    /\ \A k \in DOMAIN calls' : IsGroupCall(calls'[k]) /\ calls'[k].a \in {old, new}
    /\ Len(calls') =
          (IF old # NoGroup /\ hasGroup(groupRegistry, old) THEN 1 ELSE 0)
          + (IF new # NoGroup /\ Cardinality(members(groupRegistry', new)) > 1
             THEN 1 ELSE 0)
    /\ (old # NoGroup /\ old # new) => i \notin members(groupRegistry', old)
    /\ new # NoGroup =>
          /\ i \in members(groupRegistry', new)
          /\ Cardinality(members(groupRegistry', new)) > 1
                => calls'[Len(calls')] = ConnectCall(new)
    /\ \A g \in GroupIds \ {old, new} :
          /\ members(groupRegistry', g) = members(groupRegistry, g)
          /\ connectState'[g] = connectState[g]
    /\ \A g \in GroupIds :
          members(groupRegistry', g) \ {i} = members(groupRegistry, g) \ {i}

\* C31: updateGroup(instance, old, new) leaves the old group, if given, before
\* it joins the new one, if given, and with neither it changes neither the
\* registry nor the engine; Effect 5 calls it, with the instance's actual group
\* as the old one, only when that group differs from the configured one, and
\* makes no connect or disconnect call and no change otherwise.
C31_UpdateGroupFrame ==
    [][ /\ lastOp'.op = "updateGroup" =>
              /\ UpdateGroupStep(lastOp'.instance, lastOp'.element, lastOp'.hook)
              /\ (lastOp'.element = NoGroup /\ lastOp'.hook = NoGroup) =>
                    /\ calls' = <<>>
                    /\ groupRegistry' = groupRegistry
                    /\ connectState' = connectState
        /\ lastOp'.op = "effect5" =>
              LET instance == lastOp'.instance
                  currentGroup == getInstanceGroup(groupRegistry, instance)
                  group == hook[lastOp'.hook].props.group
              IN
              IF instance = NoInstance \/ currentGroup = group
              THEN /\ calls' = <<>>
                   /\ groupRegistry' = groupRegistry
                   /\ connectState' = connectState
              ELSE UpdateGroupStep(instance, currentGroup, group)
      ]_vars

\* the group phase moves an instance from a group that keeps one member to a
\* group that then has two
C31_Witness ==
    /\ lastOp.op = "effect5"
    /\ calls = <<DisconnectCall("gA"), ConnectCall("gB")>>
    /\ lastOp.instance \in members(groupRegistry, "gB")
    /\ lastOp.instance \notin members(groupRegistry, "gA")

\* C32: a run of Effect 2, 3, 4 or 5 that finds no cached instance for the
\* container (the gate is pending, the ref is null, init failed, or the instance
\* was torn down) makes no engine call and changes neither the last-applied
\* baseline, the bound-events record, the group registry nor anything else of
\* the engine or the cache.
C32_NoInstanceNoEffect ==
    [][ (/\ lastOp'.op \in {"effect2", "effect3", "effect4", "effect5"}
         /\ getInstance(lastOp'.hook) = NoInstance) =>
          /\ calls' = <<>>
          /\ hook'[lastOp'.hook].lastAppliedRef = hook[lastOp'.hook].lastAppliedRef
          /\ hook'[lastOp'.hook].boundEventsRef = hook[lastOp'.hook].boundEventsRef
          /\ groupRegistry' = groupRegistry
          /\ connectState' = connectState
          /\ handlers' = handlers
          /\ loading' = loading
          /\ instanceCache' = instanceCache
          /\ disposeCount' = disposeCount ]_vars

\* the phases that ran without an instance, by the reason there was none
NoInstancePhase(op) ==
    /\ lastOp.op = op
    /\ lastOp.instance = NoInstance
    /\ hook["h1"].props.group = "gA"
    /\ hook["h1"].props.option = "o2"
    /\ hook["h1"].boundEventsRef = NoEvents

\* the group phase of a binding whose instance was torn down by a theme change
\* and whose second init failed, with a group, events, loading and a new option
\* configured
C32_Witness ==
    /\ NoInstancePhase("effect5")
    /\ hook["h1"].shouldInit
    /\ hook["h1"].element = "e1"
    /\ \E i \in Instances : disposeCount[i] = 1
    /\ hook["h1"].lastAppliedRef = Applied("o1", "")

\* a re-render that must not re-create: a new custom object with the content of
\* the old one, or an unrecognized theme string in place of no theme
SameContentSwap(old, new) ==
    /\ old.kind = "object" /\ new.kind = "object"
    /\ old.object.ref # new.object.ref
    /\ old.object.props = new.object.props
UnrecognizedForNone(old, new) ==
    /\ old.kind = "null"
    /\ new.kind = "string" /\ new.name \notin BuiltinThemes
IdentityChanged(old, new) ==
    \/ computeThemeKey(old.theme) # computeThemeKey(new.theme)
    \/ old.renderer # new.renderer
    \/ old.initOpts # new.initOpts

\* C33: echarts.init is called by Effect 1 only, with the gate active and a
\* container at hand; a pass runs Effect 1 only as the first pass of a mount,
\* when the gate turns active, or when a re-render changed the theme identity
\* key, the renderer or initOpts, and then it re-runs it; a re-render that
\* supplies a new custom theme object of the same content, or an unrecognized
\* theme string in place of no theme, schedules neither the cleanup nor Effect 1,
\* and dispose is called by a cleanup only.
C33_InitOnlyOnIdentityChange ==
    [][ LET h == lastOp'.hook IN
        /\ \A k \in DOMAIN calls' :
              /\ calls'[k].op = "init" =>
                    /\ lastOp'.op = "effect1"
                    /\ k = 1
                    /\ hook[h].shouldInit
                    /\ hook[h].element # NoElement
              /\ calls'[k].op = "dispose" => lastOp'.op \in {"cleanup1", "unmount"}
        /\ \A g \in Hooks :
              (HasStage(g, {"effect1"})' /\ ~HasStage(g, {"effect1"})) =>
                  /\ g = h
                  /\ lastOp'.op \in {"mount", "render", "intersect"}
                  /\ lastOp'.op = "intersect" =>
                        (~hook[h].shouldInit /\ hook'[h].shouldInit)
        /\ \A g \in Hooks :
              (lastOp'.op = "render" /\ g = h) =>
              LET old == hook[g].props
                  new == hook'[g].props
              IN
              /\ HasStage(g, {"effect1"})' <=> IdentityChanged(old, new)
              /\ HasStage(g, {"cleanup1"})' <=>
                    (IdentityChanged(old, new) /\ hook[g].cleanup1)
              /\ (/\ \/ SameContentSwap(old.theme, new.theme)
                      \/ UnrecognizedForNone(old.theme, new.theme)
                  /\ old.renderer = new.renderer
                  /\ old.initOpts = new.initOpts) =>
                    ~HasStage(g, {"cleanup1", "effect1"})'
              /\ calls' = <<>>
              /\ instanceCache' = instanceCache
              /\ disposeCount' = disposeCount
      ]_vars

\* a re-render replaced the custom theme object by another one of the same
\* content: nothing is left to run and the first instance is still cached, live
C33_Witness ==
    /\ lastOp.op = "render"
    /\ hook["h1"].props.theme = ObjectTheme(ThemeObject(2, <<Prop("color", "\"red\"")>>))
    /\ hook["h1"].pending = <<>>
    /\ getInstance("h1") = 1
    /\ disposeCount[1] = 0
    /\ instTheme[1] = customThemeName(0)
    /\ Len(registerThemeCalls) = Cardinality(BuiltinThemes) + 1

\* C34 (as claimed): once the effects of a commit have run, the gate of a
\* mounted binding whose lazy setting is false or left out reports active, and
\* with a container the binding has an instance.
C34_DisabledGateActive ==
    \A h \in Hooks :
        (Settled /\ hook[h].mounted /\ ~LazyProps(hook[h].props)) =>
            /\ hook[h].shouldInit
            /\ hook[h].element # NoElement => getInstance(h) # NoInstance

\* C35: no setOption, showLoading, hideLoading, on, off or resize call is made
\* on an instance whose dispose() was called in an earlier step or earlier in
\* the same step, whichever effect, notification or API call makes it.
C35_NoCallAfterDispose ==
    [][ /\ \A k \in DOMAIN calls' :
              calls'[k].op \in InstanceCallOps =>
                 /\ calls'[k].inst \in Instances
                 /\ disposeCount[calls'[k].inst] = 0
                 /\ \A j \in 1..(k - 1) : calls'[j] # DisposeCall(calls'[k].inst)
      ]_vars

\* the application's setOption reaches the second instance of a container whose
\* first instance was disposed by a re-creation, while the other binding is
\* gone
C35_Witness ==
    /\ lastOp.op = "apiSetOption"
    /\ calls = <<Call("setOption", 2, "o2", "{}")>>
    /\ disposeCount[1] = 1
    /\ instDom[1] = instDom[2]
    /\ \E h \in Hooks : ~hook[h].mounted

\* the name a descriptor resolves to now, and the name descriptor b resolves
\* to once descriptor a has been resolved
ResolvedName(theme) ==
    resolveThemeName(themesRevision, customThemeCache, contentHashCache,
                     customThemeCounter, theme)
ResolvedNameAfter(a, b) ==
    IF a.kind # "object" THEN ResolvedName(b)
    ELSE resolveThemeName(themesRevision,
            customThemeCacheAfter(themesRevision, customThemeCache,
                contentHashCache, customThemeCounter, a.object),
            contentHashCacheAfter(themesRevision, customThemeCache,
                contentHashCache, customThemeCounter, a.object),
            customThemeCounterAfter(themesRevision, customThemeCache,
                contentHashCache, customThemeCounter, a.object),
            b)
KeysAgreeWithNames ==
    \A a, b \in ThemeDescriptors :
        (computeThemeKey(a) = computeThemeKey(b))
            <=> (ResolvedName(a) = ResolvedNameAfter(a, b))
GeneratedNamesDistinct ==
    /\ \A k1, k2 \in DOMAIN contentHashCache :
          k1 # k2 => contentHashCache[k1] # contentHashCache[k2]
    /\ \A k \in DOMAIN contentHashCache :
          contentHashCache[k] \notin BuiltinThemes \cup {NullName}
    /\ \A r \in DOMAIN customThemeCache :
          \E k \in DOMAIN contentHashCache : contentHashCache[k] = customThemeCache[r]

\* C36: in every state of the theme registry, two theme descriptors (none, a
\* built-in name, an unrecognized string, a custom object) have equal identity
\* keys exactly when they resolve, one after the other, to the same engine
\* theme name; a resolution logs the key and the name of its descriptor, and it
\* changes the name no descriptor resolves to; the names generated for distinct
\* contents are distinct and are neither a built-in name nor null.
C36_KeyAgreesWithName ==
    [][ /\ KeysAgreeWithNames /\ KeysAgreeWithNames'
        /\ GeneratedNamesDistinct'
        /\ \A a \in ThemeDescriptors :
              /\ ResolvedNameAfter(a, a) = ResolvedName(a)
              /\ (lastOp'.op = "resolveThemeName"
                  /\ lastOp'.hook = computeThemeKey(a)) =>
                    /\ lastOp'.element = ResolvedName(a)
                    /\ ResolvedName(a)' = ResolvedName(a)
              /\ (a.kind = "object" /\ a.object.ref \in DOMAIN customThemeCache) =>
                    ResolvedName(a)' = ResolvedName(a)
      ]_vars

\* two references of one content share a generated name, another content and a
\* reordered one have names of their own
C36_Witness ==
    /\ lastOp.op = "resolveThemeName"
    /\ DOMAIN customThemeCache = {1, 2, 3, 4, 5}
    /\ customThemeCache[1] = customThemeCache[2]
    /\ Cardinality({customThemeCache[r] : r \in DOMAIN customThemeCache}) = 4
    /\ customThemeCounter = 4

\* binding h is torn down in this step while binding g holds the same
\* container with it (reference count 2) and is served by the cached instance
TornDownBeside(h, g) ==
    /\ h # g
    /\ lastOp'.op = "unmount" /\ lastOp'.hook = h
    /\ hook[h].cleanup1 /\ hook[g].cleanup1
    /\ hook[g].mounted /\ hook[g].element = hook[h].element
    /\ getReferenceCount(instanceCache, hook[h].element) = 2

SurvivorNotDisposed(g) ==
    /\ getCachedInstance(instanceCache', hook[g].element) = getInstance(g)
    /\ getReferenceCount(instanceCache', hook[g].element) = 1
    /\ disposeCount'[getInstance(g)] = 0

SurvivorKeepsGroup(g) ==
    (/\ hook[g].props.group # NoGroup
     /\ hook[g].props.group \in groupIdsOf(groupRegistry, getInstance(g)))
        => hook[g].props.group \in groupIdsOf(groupRegistry', getInstance(g))

SurvivorKeepsHandlers(g) ==
    \A bound \in tableHandlers(hook[g].boundEventsRef) :
        bound \in handlers[getInstance(g)] => bound \in handlers'[getInstance(g)]

\* C37 as stated: when one of two bindings that share a container (reference
\* count 2) is torn down, the cached instance is not disposed, it is still a
\* member of the group the remaining binding configured, and the handlers of
\* the remaining binding are still bound on it.
C37_SurvivorFunctional ==
    [][ \A h, g \in Hooks :
            TornDownBeside(h, g) =>
                /\ SurvivorNotDisposed(g)
                /\ SurvivorKeepsGroup(g)
                /\ SurvivorKeepsHandlers(g) ]_vars

\* the pair the binding asks for
ConfiguredOption(props) == Applied(props.option, props.setOptionOpts)

\* the binding has an instance, no lifecycle or option effect left to run, and
\* the last setOption an effect gave the instance carried the configured pair,
\* which is also the binding's baseline
OptionSynced(h) ==
    (/\ hook[h].mounted
     /\ getInstance(h) # NoInstance
     /\ ~HasStage(h, {"cleanup1", "effect1", "effect2"}))
    => /\ lastSetOption[getInstance(h)] = ConfiguredOption(hook[h].props)
       /\ hook[h].lastAppliedRef = ConfiguredOption(hook[h].props)

SetOptionFailed(log) == \E k \in DOMAIN log : log[k] = Raise("setOption")
SetOptionCalls(log) == SelectSeq(log, LAMBDA c : c.op = "setOption")

BaselineKeptOnFailure ==
    \A h \in Hooks :
        /\ (/\ lastOp'.hook = h /\ lastOp'.op \in {"effect1", "effect2"}
            /\ SetOptionFailed(calls'))
           => hook'[h].lastAppliedRef = hook[h].lastAppliedRef
        /\ (hook'[h].mounted /\ hook'[h].lastAppliedRef # hook[h].lastAppliedRef)
           => /\ lastOp'.hook = h /\ lastOp'.op \in {"effect1", "effect2"}
              /\ ~SetOptionFailed(calls')
              /\ SetOptionCalls(calls') =
                    <<Call("setOption", lastOp'.instance,
                           hook'[h].lastAppliedRef.option,
                           hook'[h].lastAppliedRef.opts)>>

FailedPairRetried ==
    \A h \in Hooks :
        (/\ lastOp.hook = h /\ lastOp.op = "effect1" /\ SetOptionFailed(calls)
         /\ lastOp'.hook = h /\ lastOp'.op = "effect2")
        => /\ calls' # <<>>
           /\ Head(calls') = Head(SetOptionCalls(calls))

\* C39 as stated: a setOption that throws in Effect 1 or Effect 2 leaves
\* lastAppliedRef as it was, lastAppliedRef changes only to the pair of a
\* setOption that returned, and the Effect 2 run that follows an Effect 1 whose
\* setOption threw calls setOption with the failed pair again.
C39_FailedPairAppliedAgain ==
    [][ BaselineKeptOnFailure /\ FailedPairRetried ]_vars

====
